---- MODULE Spec2Model ----
(***************************************************************************)
(* MotionGAN: the loss composer and the alternating optimizer driver.      *)
(*                                                                         *)
(* models/motiongan.py builds two networks, three ordered loss             *)
(* dictionaries and four Keras functions (disc_train_f, disc_eval_f,       *)
(* gen_train_f, gen_eval_f); train.py drives them, five discriminator      *)
(* updates and one generator update per batch of an epoch.                 *)
(*                                                                         *)
(* Abstractions.  A network's weights are a version number per layer       *)
(* group: an optimizer update of a layer group yields the next version.    *)
(* A loss tensor is a linear form over named batch statistics ("atoms"),   *)
(* with coefficients in tenths (0.1 is 1, 1.0 is 10).  A loss value is     *)
(* such a form together with the weight versions and the batch it was      *)
(* evaluated on.  Tensor and loss names are the strings of the source.     *)
(***************************************************************************)
EXTENDS Integers, Sequences, FiniteSets, TLC

\* ------------------------------------------------------------------ bounds
\* config.num_epochs
NumEpochs == 2
\* data_input.train_epoch_size
TrainBatches == 2
\* largest latent_cond_dim enumerated (0 disables latent conditioning)
MaxLatentDim == 1
\* calls made by an arbitrary caller of the model's entry points
MaxCalls == 3
\* composition operations (insertions and lookups) explored from an empty composer
MaxCompose == 2
\* joints and frames of the pose tensors the tensor operations are applied to
NJoints == 3
SeqLen == 2
\* joint counts 1..MaxBuildJoints and sequence lengths 2..MaxBuildFrames of the
\* generator graphs constructed
MaxBuildJoints == 4
MaxBuildFrames == 4
MaxKeys == 3
MaxBatchSize == 2
MaxEpochFactor == 2
MaxEpochSize == 4
MaxDepth == 3

\* ------------------------------------------------------- program constants
\* loss scales, in tenths
rec_scale == 10
action_scale_d == 100
action_scale_g == 100
latent_scale_d == 10
latent_scale_g == 10
coherence_scale == 1
displacement_scale == 1
shape_scale == 10
smoothing_scale == 1
frame_scale == 100
\* the literal 0.1 of gen_loss_rec_edm, in tenths
rec_edm_factor == 1
\* config.lambda_grads, in tenths
lambda_grads == 100
\* disc_batches of the batch loop
disc_batches == 5

\* ------------------------------------------------------------ configuration
ModelVersions == {"v1", "v2", "v3"}

Configs ==
    [model_version     : ModelVersions,
     action_cond       : BOOLEAN,
     latent_cond_dim   : 0..MaxLatentDim,
     coherence_loss    : BOOLEAN,
     displacement_loss : BOOLEAN,
     shape_loss        : BOOLEAN,
     smoothing_loss    : BOOLEAN,
     use_pose_vae      : BOOLEAN]

\* self.name
ModelName(c) == "motiongan_" \o c.model_version

\* ------------------------------------------------------------------ strings
\* Python's `needle in hay` on strings
Contains(hay, needle) ==
    \E i \in 1..(Len(hay) - Len(needle) + 1) :
        SubSeq(hay, i, i + Len(needle) - 1) = needle

StartsWith(s, p) == Len(s) >= Len(p) /\ SubSeq(s, 1, Len(p)) = p

\* ------------------------------------------------------------------ tensors
\* A tensor is its name.  A value handed to _get_tensor is either a Python
\* list of tensors or one bare tensor.
TensorList(names) == [islist |-> TRUE, items |-> names]
BareTensor(name) == [islist |-> FALSE, items |-> <<name>>]

StopIteration == "StopIteration"

FirstMatch(items, name) ==
    CHOOSE i \in 1..Len(items) :
        /\ Contains(items[i], name)
        /\ \A j \in 1..(i - 1) : ~Contains(items[j], name)

_get_tensor(tensors, name) ==
    IF tensors.islist
    THEN IF \E i \in 1..Len(tensors.items) : Contains(tensors.items[i], name)
         THEN tensors.items[FirstMatch(tensors.items, name)]
         ELSE StopIteration
    ELSE tensors.items[1]

\* the output layers of the discriminator, in the order of output_tensors
_proc_disc_outputs(c) ==
    <<"discriminator/score_out">>
    \o (IF c.action_cond THEN <<"discriminator/label_out">> ELSE <<>>)
    \o (IF c.latent_cond_dim > 0 THEN <<"discriminator/latent_cond_out">> ELSE <<>>)
    \o (IF c.use_pose_vae THEN <<"discriminator/frame_score_out">> ELSE <<>>)

\* self.real_outputs: the output tensors of the layers applied to real_seq
real_outputs(c) ==
    TensorList([i \in 1..Len(_proc_disc_outputs(c)) |->
                    _proc_disc_outputs(c)[i] \o "/BiasAdd:0"])

\* Model.__call__ on a new input: the outputs re-created under the model's name
\* scope; a list when the model has several outputs, else the bare tensor
ModelCall(scope, c) ==
    LET outs == [i \in 1..Len(_proc_disc_outputs(c)) |->
                     scope \o "/" \o _proc_disc_outputs(c)[i] \o "/BiasAdd:0"]
    IN  IF Len(outs) = 1 THEN BareTensor(outs[1]) ELSE TensorList(outs)

\* self.fake_outputs = self.disc_model(self.gen_outputs[0])
fake_outputs(c) == ModelCall(ModelName(c) \o "_discriminator", c)
\* inter_outputs = self.disc_model(interpolates)
inter_outputs(c) == ModelCall(ModelName(c) \o "_discriminator_1", c)

\* self.disc_inputs, self.gen_inputs, self.place_holders
disc_inputs(c) == TensorList(<<"real_seq:0">>)
gen_inputs(c) ==
    TensorList(<<"real_seq:0", "seq_mask:0">>
               \o (IF c.latent_cond_dim > 0 THEN <<"latent_cond_input:0">> ELSE <<>>))
place_holders(c) ==
    TensorList(IF c.action_cond THEN <<"true_label:0">> ELSE <<>>)

\* the inputs K.function declares for each of the four functions
function_inputs(fn, c) ==
    IF fn \in {"disc_train", "disc_eval"}
    THEN disc_inputs(c).items \o gen_inputs(c).items \o place_holders(c).items
    ELSE gen_inputs(c).items \o place_holders(c).items

\* ------------------------------------------------------------- linear forms
\* a form maps atoms to non-zero coefficients in tenths
Zero == [a \in {} |-> 0]

Coef(f, a) == IF a \in DOMAIN f THEN f[a] ELSE 0

Norm(f) == [a \in {x \in DOMAIN f : f[x] # 0} |-> f[a]]

Atom(a) == [x \in {a} |-> 10]

Plus(f, g) == Norm([a \in DOMAIN f \cup DOMAIN g |-> Coef(f, a) + Coef(g, a)])

Neg(f) == [a \in DOMAIN f |-> 0 - f[a]]

Minus(f, g) == Plus(f, Neg(g))

\* multiplication by a scale given in tenths
Scale(s, f) == Norm([a \in DOMAIN f |-> (s * f[a]) \div 10])

\* ------------------------------------------------------------- OrderedDict
\* an OrderedDict is the sequence of its items in insertion order
EmptyDict == <<>>

Keys(d) == [i \in 1..Len(d) |-> d[i].key]
Values(d) == [i \in 1..Len(d) |-> d[i].val]
HasKey(d, k) == \E i \in 1..Len(d) : d[i].key = k
Get(d, k) == d[CHOOSE i \in 1..Len(d) : d[i].key = k].val

\* d[k] = v: a new key is appended, a present key keeps its place and takes v
SetItem(d, k, v) ==
    IF HasKey(d, k)
    THEN [i \in 1..Len(d) |-> IF d[i].key = k THEN [key |-> k, val |-> v] ELSE d[i]]
    ELSE Append(d, [key |-> k, val |-> v])

\* ----------------------------------------------------------- _build_loss
\* len(self.disc_model.losses) > 0: the V1 and V2 discriminators and the
\* discriminator's pose sub-encoder carry l2 kernel regularizers, the dense
\* V3 discriminator and the output heads carry none
DiscHasRegLosses(c) == c.model_version \in {"v1", "v2"} \/ c.use_pose_vae
\* len(self.gen_model.losses) > 0: _proc_gen_inputs and _proc_gen_outputs
\* always add regularized convolutions
GenHasRegLosses(c) == TRUE

Stmt(d, k, v) == [dict |-> d, key |-> k, val |-> v]

\* the tensors _build_loss grabs by name
Grab(c) ==
    [real_seq        |-> _get_tensor(disc_inputs(c), "real_seq"),
     seq_mask        |-> _get_tensor(gen_inputs(c), "seq_mask"),
     real_score      |-> _get_tensor(real_outputs(c), "score_out"),
     fake_score      |-> _get_tensor(fake_outputs(c), "score_out"),
     inter_score     |-> _get_tensor(inter_outputs(c), "discriminator/score_out"),
     real_frame      |-> _get_tensor(real_outputs(c), "frame_score_out"),
     fake_frame      |-> _get_tensor(fake_outputs(c), "frame_score_out"),
     inter_frame     |-> _get_tensor(inter_outputs(c), "discriminator/frame_score_out"),
     true_label      |-> _get_tensor(place_holders(c), "true_label"),
     real_label      |-> _get_tensor(real_outputs(c), "label_out"),
     fake_label      |-> _get_tensor(fake_outputs(c), "label_out"),
     fake_latent     |-> _get_tensor(fake_outputs(c), "latent_cond_out"),
     latent_input    |-> _get_tensor(gen_inputs(c), "latent_cond_input")]

\* the lookups the enabled branches of _build_loss perform
GrabbedNames(c) ==
    {"real_seq", "seq_mask", "real_score", "fake_score", "inter_score"}
    \cup (IF c.use_pose_vae THEN {"real_frame", "fake_frame", "inter_frame"} ELSE {})
    \cup (IF c.action_cond THEN {"true_label", "real_label", "fake_label"} ELSE {})
    \cup (IF c.latent_cond_dim > 0 THEN {"fake_latent", "latent_input"} ELSE {})

\* next() on an exhausted generator expression raises out of _build_loss
BuildRaises(c) == \E n \in GrabbedNames(c) : Grab(c)[n] = StopIteration

\* mutant: the gradient penalty is added to the generator's WGAN loss too
WganStmtsPenaltyInGen(c) ==
    LET g == Grab(c)
        loss_real == Atom("mean(" \o g.real_score \o ")")
        loss_fake == Atom("mean(" \o g.fake_score \o ")")
        grad_penalty == Atom("grad_penalty(" \o g.inter_score \o ")")
    IN  << Stmt("wgan", "loss_real", loss_real),
           Stmt("wgan", "loss_fake", loss_fake),
           Stmt("disc", "disc_loss_wgan",
                Plus(Minus(loss_fake, loss_real), Scale(lambda_grads, grad_penalty))),
           Stmt("gen", "gen_loss_wgan",
                Plus(Neg(loss_fake), Scale(lambda_grads, grad_penalty))) >>

\* WGAN basic losses, interpolates, gradient penalty, WGAN-GP losses
WganStmts(c) ==
    LET g == Grab(c)
        loss_real == Atom("mean(" \o g.real_score \o ")")
        loss_fake == Atom("mean(" \o g.fake_score \o ")")
        grad_penalty == Atom("grad_penalty(" \o g.inter_score \o ")")
    IN  << Stmt("wgan", "loss_real", loss_real),
           Stmt("wgan", "loss_fake", loss_fake),
           Stmt("disc", "disc_loss_wgan",
                Plus(Minus(loss_fake, loss_real), Scale(lambda_grads, grad_penalty))),
           Stmt("gen", "gen_loss_wgan", Neg(loss_fake)) >>

\* regularization losses
RegStmts(c) ==
    (IF DiscHasRegLosses(c)
     THEN <<Stmt("disc", "disc_loss_reg", Atom("reg(disc_model)"))>> ELSE <<>>)
    \o (IF GenHasRegLosses(c)
        THEN <<Stmt("gen", "gen_loss_reg", Atom("reg(gen_model)"))>> ELSE <<>>)

\* reconstruction losses
RecStmts(c) ==
    << Stmt("gen", "gen_loss_rec", Scale(rec_scale, Atom("rec"))),
       Stmt("gen", "gen_loss_rec_edm",
            Scale(rec_edm_factor, Scale(rec_scale, Atom("rec_edm")))) >>

\* frame-level WGAN-GP losses of the pose sub-encoder
FrameStmts(c) ==
    IF c.use_pose_vae
    THEN LET g == Grab(c)
             frame_loss_real == Atom("frame_sum(" \o g.real_frame \o ")")
             frame_loss_fake == Atom("frame_sum(" \o g.fake_frame \o ")")
             frame_grad_penalty == Atom("frame_grad_penalty(" \o g.inter_frame \o ")")
         IN  << Stmt("wgan", "frame_loss_real", frame_loss_real),
                Stmt("wgan", "frame_loss_fake", frame_loss_fake),
                Stmt("disc", "frame_disc_loss_wgan",
                     Scale(frame_scale,
                           Plus(Minus(frame_loss_fake, frame_loss_real),
                                Scale(lambda_grads, frame_grad_penalty)))),
                Stmt("gen", "frame_gen_loss_wgan",
                     Scale(frame_scale, Neg(frame_loss_fake))) >>
    ELSE <<>>

\* conditional losses
\* mutant: the generator's action loss takes the real-side term as well
CondStmtsRealInGen(c) ==
    LET g == Grab(c)
        loss_class_real == Atom("xent(" \o g.true_label \o "," \o g.real_label \o ")")
        loss_class_fake == Atom("xent(" \o g.true_label \o "," \o g.fake_label \o ")")
        loss_latent == Atom("mse(" \o g.fake_latent \o "," \o g.latent_input \o ")")
    IN  (IF c.action_cond
         THEN << Stmt("disc", "disc_loss_action",
                      Scale(action_scale_d, Plus(loss_class_real, loss_class_fake))),
                 Stmt("gen", "gen_loss_action",
                      Scale(action_scale_g, Plus(loss_class_real, loss_class_fake))) >>
         ELSE <<>>)
        \o (IF c.latent_cond_dim > 0
            THEN << Stmt("disc", "disc_loss_latent", Scale(latent_scale_d, loss_latent)),
                    Stmt("gen", "gen_loss_latent", Scale(latent_scale_g, loss_latent)) >>
            ELSE <<>>)

CondStmts(c) ==
    LET g == Grab(c)
        loss_class_real == Atom("xent(" \o g.true_label \o "," \o g.real_label \o ")")
        loss_class_fake == Atom("xent(" \o g.true_label \o "," \o g.fake_label \o ")")
        loss_latent == Atom("mse(" \o g.fake_latent \o "," \o g.latent_input \o ")")
    IN  (IF c.action_cond
         THEN << Stmt("disc", "disc_loss_action",
                      Scale(action_scale_d, Plus(loss_class_real, loss_class_fake))),
                 Stmt("gen", "gen_loss_action", Scale(action_scale_g, loss_class_fake)) >>
         ELSE <<>>)
        \o (IF c.latent_cond_dim > 0
            THEN << Stmt("disc", "disc_loss_latent", Scale(latent_scale_d, loss_latent)),
                    Stmt("gen", "gen_loss_latent", Scale(latent_scale_g, loss_latent)) >>
            ELSE <<>>)

\* mutant: the displacement loss is guarded by the coherence flag
AuxStmtsWrongFlag(c) ==
    (IF c.coherence_loss
     THEN <<Stmt("gen", "gen_loss_coh", Scale(coherence_scale, Atom("coh")))>> ELSE <<>>)
    \o (IF c.coherence_loss
        THEN <<Stmt("gen", "gen_loss_disp", Scale(displacement_scale, Atom("disp")))>>
        ELSE <<>>)
    \o (IF c.shape_loss
        THEN <<Stmt("gen", "gen_loss_shape", Scale(shape_scale, Atom("shape")))>> ELSE <<>>)
    \o (IF c.smoothing_loss
        THEN <<Stmt("gen", "gen_loss_smooth", Scale(smoothing_scale, Atom("smooth")))>>
        ELSE <<>>)

\* coherence, displacement, shape and smoothing losses
AuxStmts(c) ==
    (IF c.coherence_loss
     THEN <<Stmt("gen", "gen_loss_coh", Scale(coherence_scale, Atom("coh")))>> ELSE <<>>)
    \o (IF c.displacement_loss
        THEN <<Stmt("gen", "gen_loss_disp", Scale(displacement_scale, Atom("disp")))>>
        ELSE <<>>)
    \o (IF c.shape_loss
        THEN <<Stmt("gen", "gen_loss_shape", Scale(shape_scale, Atom("shape")))>> ELSE <<>>)
    \o (IF c.smoothing_loss
        THEN <<Stmt("gen", "gen_loss_smooth", Scale(smoothing_scale, Atom("smooth")))>>
        ELSE <<>>)

\* the dictionary assignments of _build_loss, in the order they execute
LossStmts(c) ==
    WganStmts(c) \o RegStmts(c) \o RecStmts(c) \o FrameStmts(c) \o CondStmts(c)
    \o AuxStmts(c)

EmptyDicts == [wgan |-> EmptyDict, disc |-> EmptyDict, gen |-> EmptyDict]

RECURSIVE Exec(_, _)
Exec(stmts, dicts) ==
    IF stmts = <<>>
    THEN dicts
    ELSE LET s == Head(stmts)
         IN  Exec(Tail(stmts),
                  [dicts EXCEPT ![s.dict] = SetItem(dicts[s.dict], s.key, s.val)])

\* wgan_losses, disc_losses, gen_losses
_build_loss(c) == Exec(LossStmts(c), EmptyDicts)

\* disc_loss / gen_loss: `loss = 0.0; for l in d.values(): loss += l`
RECURSIVE SumValues(_, _)
SumValues(vals, acc) ==
    IF vals = <<>> THEN acc ELSE SumValues(Tail(vals), Plus(acc, Head(vals)))

\* mutant: the reported wgan entries are summed into the objective as well
disc_loss_with_wgan(ls) == SumValues(Values(ls.wgan) \o Values(ls.disc), Zero)

disc_loss(ls) == SumValues(Values(ls.disc), Zero)
gen_loss(ls) == SumValues(Values(ls.gen), Zero)

\* ------------------------------------------------------------------- state
VARIABLES
    cfg,        \* the configuration the model was constructed from
    losses,     \* self.wgan_losses, self.disc_losses, self.gen_losses
    objective,  \* disc_loss and gen_loss, the scalars handed to the optimizers
    comp,       \* a loss composition in progress: dictionaries and lookups
    weights,    \* layer group -> version of its weights
    opt,        \* the two Adam optimizers: lr, iterations, moments
    report,     \* the mapping returned by the last entry-point call
    ncalls,     \* entry-point calls made so far
    pc,         \* train.py: position of the main program
    epoch,      \* train.py: loop variable of the epoch loop
    batch,      \* train.py: loop variable of the batch loop
    disc_batch, \* train.py: loop variable of the critic loop
    supply,     \* batches drawn so far from train_generator and val_generator
    disk,       \* persisted state: the two weight files and the pickled config
    tens,       \* a tensor computation: its input tensors, the operation, its result
    build,      \* a generator graph under construction: stage and tensor shape
    data,       \* a DataInput and one of its batch generators
    scope       \* a Scoping object and the name_scope blocks open on it

vars == <<cfg, losses, objective, comp, tens, build, data, scope, weights, opt, report, ncalls, pc, epoch, batch, disc_batch, supply, disk>>
model_vars == <<weights, opt, report, ncalls>>
driver_vars == <<pc, epoch, batch, disc_batch, supply, disk>>

\* ---------------------------------------------------------------- networks
LayerGroups == {"discriminator", "discriminator/pose_vae", "generator", "pose_vae"}

\* mutant: the discriminator's frame critic reuses the generator's pose
\* sub-encoder layers, so they are trainable weights of both models
trainable_weights_shared(model, c) ==
    IF model = "disc"
    THEN {"discriminator"}
         \cup (IF c.use_pose_vae THEN {"discriminator/pose_vae", "pose_vae"} ELSE {})
    ELSE {"generator"} \cup (IF c.use_pose_vae THEN {"pose_vae"} ELSE {})

\* self.disc_model.trainable_weights / self.gen_model.trainable_weights: the
\* weights of the layers between the model's inputs and its outputs
trainable_weights(model, c) ==
    IF model = "disc"
    THEN {"discriminator"} \cup (IF c.use_pose_vae THEN {"discriminator/pose_vae"} ELSE {})
    ELSE {"generator"} \cup (IF c.use_pose_vae THEN {"pose_vae"} ELSE {})

\* mutant: the fake path runs a copy of the discriminator made at
\* construction, which no optimizer updates
DiscWeightsCopied(path, w) == IF path = "fake" THEN 0 ELSE w["discriminator"]

\* the discriminator weights a use of self.disc_model reads: the real path
\* (disc_model itself), the fake path self.disc_model(gen_outputs), the
\* interpolates path and gan_model all call the one Model object
DiscWeightsOf(path, w) == w["discriminator"]

\* what a forward pass on batch b reads
Ctx(w, b) ==
    [batch |-> b,
     real  |-> DiscWeightsOf("real", w),
     fake  |-> DiscWeightsOf("fake", w),
     inter |-> DiscWeightsOf("inter", w),
     gen   |-> w["generator"]]

\* --------------------------------------------------------- Keras functions
LossOut(form) == [scalar |-> TRUE, expr |-> form]
TensorOut(name) == [scalar |-> FALSE, expr |-> Atom(name)]

LossOuts(forms) == [i \in 1..Len(forms) |-> LossOut(forms[i])]

\* mutant: the two value lists are concatenated the other way round
disc_train_f_outs_swapped(ls) == LossOuts(Values(ls.disc) \o Values(ls.wgan))

\* outputs of disc_train_f and of disc_eval_f
disc_train_f_outs(ls) == LossOuts(Values(ls.wgan) \o Values(ls.disc))
disc_eval_f_outs(ls) == LossOuts(Values(ls.wgan) \o Values(ls.disc))

\* outputs of gen_train_f and of gen_eval_f (gen_f_outs)
gen_train_f_outs(ls) == LossOuts(Values(ls.gen))
gen_eval_f_outs(c, ls) ==
    LossOuts(Values(ls.gen))
    \o (IF c.use_pose_vae THEN <<TensorOut("vae_z")>> ELSE <<>>)
    \o <<TensorOut("gen_outputs")>>

NoUpdates == [optimizer |-> "none", loss |-> Zero, params |-> {}]

\* optimizer.get_updates(loss, params): the optimizer's own state and params
disc_training_updates(c, obj) ==
    [optimizer |-> "disc", loss |-> obj.disc, params |-> trainable_weights("disc", c)]
gen_training_updates(c, obj) ==
    [optimizer |-> "gen", loss |-> obj.gen, params |-> trainable_weights("gen", c)]
\* mutant: disc_eval_f is built with the training updates
disc_eval_with_updates(c) ==
    [optimizer |-> "disc", loss |-> Zero, params |-> trainable_weights("disc", c)]
\* disc_eval_f and gen_eval_f are built without updates
disc_eval_updates(c) == NoUpdates
gen_eval_updates(c) == NoUpdates

\* one Adam step (beta_1 = 0: the first moment is the last gradient, that of
\* `loss` on batch b)
AdamStep(o, loss, b) ==
    [o EXCEPT !.iterations = @ + 1, !.moments = [grad_of |-> loss, at |-> b]]

\* K.function(inputs, outputs, updates)(feed): the outputs evaluated on the
\* feed with the current weights, then the updates applied
Evaluate(outs, w, b) ==
    [i \in 1..Len(outs) |-> [scalar |-> outs[i].scalar,
                             expr   |-> outs[i].expr,
                             ctx    |-> Ctx(w, b)]]

ApplyToWeights(upd, w) ==
    [l \in LayerGroups |-> IF l \in upd.params THEN w[l] + 1 ELSE w[l]]

ApplyToOpt(upd, o, b) ==
    IF upd.optimizer = "none" THEN o
    ELSE [o EXCEPT ![upd.optimizer] = AdamStep(@, upd.loss, b)]

\* OrderedDict(zip(keys, outs))
RECURSIVE ZipDict(_, _, _)
ZipDict(keys, outs, d) ==
    IF keys = <<>> \/ outs = <<>>
    THEN d
    ELSE ZipDict(Tail(keys), Tail(outs), SetItem(d, Head(keys), Head(outs)))

Prefixed(prefix, keys) == [i \in 1..Len(keys) |-> prefix \o keys[i]]

\* the keys of the four reports
disc_train_keys(ls) == Prefixed("train/", Keys(ls.wgan) \o Keys(ls.disc))
disc_eval_keys(ls) == Prefixed("val/", Keys(ls.wgan) \o Keys(ls.disc))
\* mutant: gen_train labels its report with the validation prefix
gen_train_keys_val(ls) == Prefixed("val/", Keys(ls.gen))

gen_train_keys(ls) == Prefixed("train/", Keys(ls.gen))
gen_eval_keys(c, ls) ==
    Prefixed("val/", Keys(ls.gen))
    \o (IF c.use_pose_vae THEN <<"vae_z">> ELSE <<>>)
    \o <<"gen_outputs">>

\* an entry point: run the function, zip its outputs with the keys
EntryPoint(name, keys, outs, upd, b) ==
    /\ report' = [call |-> name,
                  items |-> ZipDict(keys, Evaluate(outs, weights, b), EmptyDict)]
    /\ weights' = ApplyToWeights(upd, weights)
    /\ opt' = ApplyToOpt(upd, opt, b)
    /\ ncalls' = ncalls + 1

disc_train(b) ==
    EntryPoint("disc_train", disc_train_keys(losses), disc_train_f_outs(losses),
               disc_training_updates(cfg, objective), b)
disc_eval(b) ==
    EntryPoint("disc_eval", disc_eval_keys(losses), disc_eval_f_outs(losses),
               disc_eval_updates(cfg), b)
gen_train(b) ==
    EntryPoint("gen_train", gen_train_keys(losses), gen_train_f_outs(losses),
               gen_training_updates(cfg, objective), b)
gen_eval(b) ==
    EntryPoint("gen_eval", gen_eval_keys(cfg, losses), gen_eval_f_outs(cfg, losses),
               gen_eval_updates(cfg), b)

\* mutant: the optimizers are rebuilt with the new rate, losing their state
update_lr_rebuilds(lr) ==
    /\ opt' = [o \in {"disc", "gen"} |->
                  [lr |-> lr, iterations |-> 0,
                   moments |-> [grad_of |-> Zero, at |-> [src |-> "none", n |-> 0]]]]
    /\ UNCHANGED <<weights, report, ncalls>>

\* K.set_value on both optimizers' lr
update_lr(lr) ==
    /\ opt' = [opt EXCEPT !["disc"].lr = lr, !["gen"].lr = lr]
    /\ UNCHANGED <<weights, report, ncalls>>

\* ------------------------------------------------------------------- Init
\* learning rates are counted in units of config.learning_rate / num_epochs
InitialLr == NumEpochs

\* a batch is identified by the generator it was drawn from and its draw number
Feed(src, n) == [src |-> src, n |-> n]

NewAdam ==
    [lr |-> InitialLr, iterations |-> 0,
     moments |-> [grad_of |-> Zero, at |-> Feed("none", 0)]]

\* no composition in progress
NoComp == [dicts |-> EmptyDicts, steps |-> 0, collided |-> FALSE, missing |-> FALSE,
           silent |-> FALSE, raised |-> FALSE, got |-> "none"]

NoReport == [call |-> "none", items |-> EmptyDict]

NoFile == [written |-> FALSE, w |-> [l \in LayerGroups |-> 0]]

\* no tensor computation and no graph construction in progress
NoTensors == [real |-> <<>>, gen |-> <<>>, op |-> "none", arg |-> "none", out |-> "none"]
NoBuild == [stage |-> "none"]

\* no data input and no scoping object in use
NoData == [stage |-> "none"]
NoScope == [stage |-> "none"]

\* the model object and the main program right after construction from cfg
Constructed ==
    /\ losses = _build_loss(cfg)
    /\ objective = [disc |-> disc_loss(losses), gen |-> gen_loss(losses)]
    /\ comp = NoComp
    /\ weights = [l \in LayerGroups |-> 0]
    /\ opt = [disc |-> NewAdam, gen |-> NewAdam]
    /\ report = NoReport
    /\ ncalls = 0
    /\ pc = "epoch"
    /\ epoch = 0
    /\ batch = 0
    /\ disc_batch = 0
    /\ supply = [train |-> 0, val |-> 0]
    /\ disk = [disc_weights |-> NoFile, gen_weights |-> NoFile,
               config |-> [epoch |-> 0, batch |-> 0]]

Init ==
    /\ cfg \in Configs
    /\ Constructed
    /\ tens = NoTensors
    /\ build = NoBuild
    /\ data = NoData
    /\ scope = NoScope

\* ------------------------------------------------------- train.py, __main__
\* mutant: the rate is not lowered
DecayedLrConstant(e) == NumEpochs

\* learning_rate * (1.0 - epoch / num_epochs), in units of learning_rate / num_epochs
DecayedLr(e) == NumEpochs - e

\* what one `next()` of a batch generator returns (sub_sample_batch's
\* return value) and the names the main program unpacks it into
yielded_batch == <<"labs_batch", "poses_batch", "hip_poses_batch">>
unpack_targets == <<"labs_batch", "poses_batch">>

\* the list the main program passes to an entry point:
\* disc_inputs + gen_inputs + place_holders, or gen_inputs + place_holders
driver_inputs(fn, c) ==
    LET gen_in == <<"poses_batch">>
                  \o (IF c.latent_cond_dim > 0 THEN <<"latent_noise">> ELSE <<>>)
        flags  == <<"bool", "bool">>
                  \o (IF c.action_cond THEN <<"labs_batch[:, 2]">> ELSE <<>>)
    IN  IF fn \in {"disc_train", "disc_eval"}
        THEN <<"poses_batch">> \o gen_in \o flags
        ELSE gen_in \o flags

\* mutant: the critic loop runs once more
DiscLoopOffByOne(db) == db <= disc_batches

\* `for disc_batch in range(disc_batches)`
DiscLoopContinues(db) == db < disc_batches

\* the weights model.save() writes: those of the model's own layers
SavedWeights(model, c, w) ==
    [written |-> TRUE,
     w |-> [l \in LayerGroups |-> IF l \in trainable_weights(model, c) THEN w[l] ELSE 0]]

\* mutant: only the discriminator file is written
save_models_disc_only(d, c, w) ==
    [d EXCEPT !.disc_weights = SavedWeights("disc", c, w)]

\* save_models(): disc_model.save, then gen_model.save
save_models(d, c, w) ==
    [d EXCEPT !.disc_weights = SavedWeights("disc", c, w),
              !.gen_weights = SavedWeights("gen", c, w)]

\* top of the epoch loop: lr decay, then the batch loop starts at config.batch
EpochBegin ==
    /\ pc = "epoch"
    /\ epoch < NumEpochs
    /\ update_lr(DecayedLr(epoch))
    /\ batch' = disk.config.batch
    /\ pc' = "batch"
    /\ UNCHANGED <<cfg, losses, objective, comp, tens, build, data, scope, epoch, disc_batch, supply, disk>>

\* top of the batch loop
BatchBegin ==
    /\ pc = "batch"
    /\ batch < TrainBatches
    /\ disc_batch' = 0
    /\ pc' = "critic"
    /\ UNCHANGED <<cfg, losses, objective, comp, tens, build, data, scope, weights, opt, report, ncalls, epoch, batch, supply, disk>>

\* one pass of the critic loop: draw a batch, disc_train
DiscStep ==
    /\ pc = "critic"
    /\ DiscLoopContinues(disc_batch)
    /\ supply' = [supply EXCEPT !.train = @ + 1]
    /\ disc_train(Feed("train", supply.train + 1))
    /\ disc_batch' = disc_batch + 1
    /\ UNCHANGED <<cfg, losses, objective, comp, tens, build, data, scope, pc, epoch, batch, disk>>

\* after the critic loop: draw a batch, gen_train, then config.batch and
\* config.save()
GenStep ==
    /\ pc = "critic"
    /\ ~DiscLoopContinues(disc_batch)
    /\ supply' = [supply EXCEPT !.train = @ + 1]
    /\ gen_train(Feed("train", supply.train + 1))
    /\ batch' = batch + 1
    /\ disk' = [disk EXCEPT !.config.batch = batch + 1]
    /\ pc' = "batch"
    /\ UNCHANGED <<cfg, losses, objective, comp, tens, build, data, scope, epoch, disc_batch>>

\* the batch loop is exhausted: save_models()
SaveModels ==
    /\ pc = "batch"
    /\ batch >= TrainBatches
    /\ disk' = save_models(disk, cfg, weights)
    /\ pc' = "val_disc"
    /\ UNCHANGED <<cfg, losses, objective, comp, tens, build, data, scope, weights, opt, report, ncalls, epoch, batch, disc_batch, supply>>

\* validation: draw a batch from val_generator, disc_eval
ValDisc ==
    /\ pc = "val_disc"
    /\ supply' = [supply EXCEPT !.val = @ + 1]
    /\ disc_eval(Feed("val", supply.val + 1))
    /\ pc' = "val_gen"
    /\ UNCHANGED <<cfg, losses, objective, comp, tens, build, data, scope, epoch, batch, disc_batch, disk>>

\* gen_eval on the same batch, then the epoch counter is stored
ValGen ==
    /\ pc = "val_gen"
    /\ gen_eval(Feed("val", supply.val))
    /\ epoch' = epoch + 1
    /\ disk' = [disk EXCEPT !.config = [epoch |-> epoch + 1, batch |-> 0]]
    /\ pc' = "epoch"
    /\ UNCHANGED <<cfg, losses, objective, comp, tens, build, data, scope, batch, disc_batch, supply>>

\* the epoch loop is exhausted
TrainEnd ==
    /\ pc = "epoch"
    /\ epoch >= NumEpochs
    /\ pc' = "done"
    /\ UNCHANGED <<cfg, losses, objective, comp, tens, build, data, scope, weights, opt, report, ncalls, epoch, batch, disc_batch, supply, disk>>

Next ==
    \/ EpochBegin
    \/ BatchBegin
    \/ DiscStep
    \/ GenStep
    \/ SaveModels
    \/ ValDisc
    \/ ValGen
    \/ TrainEnd

Spec == Init /\ [][Next]_vars

\* --------------------------------------------------------------- interrupt
\* A KeyboardInterrupt raised inside the `try` block: between two statements
\* of the epoch loop (a running K.function call completes first).
LoopPositions == {"epoch", "batch", "critic", "val_disc", "val_gen"}

Interrupt ==
    /\ pc \in LoopPositions
    /\ epoch < NumEpochs
    /\ pc' = "interrupted"
    /\ UNCHANGED <<cfg, losses, objective, comp, tens, build, data, scope, weights, opt, report, ncalls, epoch, batch, disc_batch, supply, disk>>

\* `except KeyboardInterrupt: save_models()`, then on_train_end and the end of
\* the script
KeyboardInterruptHandler ==
    /\ pc = "interrupted"
    /\ disk' = save_models(disk, cfg, weights)
    /\ pc' = "stopped"
    /\ UNCHANGED <<cfg, losses, objective, comp, tens, build, data, scope, weights, opt, report, ncalls, epoch, batch, disc_batch, supply>>

\* the configurations whose only losses are the adversarial and the
\* conditional ones
PlainConfigs ==
    {c \in Configs : /\ ~c.coherence_loss /\ ~c.displacement_loss
                      /\ ~c.shape_loss /\ ~c.smoothing_loss}

InitInterrupt ==
    /\ cfg \in PlainConfigs
    /\ Constructed
    /\ tens = NoTensors
    /\ build = NoBuild
    /\ data = NoData
    /\ scope = NoScope

NextInterrupt ==
    \/ Next
    \/ Interrupt
    \/ KeyboardInterruptHandler

\* once the exception is raised the handler runs: the program is one thread
SpecInterrupt ==
    InitInterrupt /\ [][NextInterrupt]_vars /\ WF_vars(KeyboardInterruptHandler)

\* ------------------------------------------------------------------ resume
\* The main program started on the files of an earlier run that stopped after
\* `e` whole epochs and `b` batches of the next one.
\* the weights that run had reached, one version per update
WeightsAfter(c, e, b) ==
    [l \in LayerGroups |->
        IF l \in trainable_weights("disc", c) THEN (e * TrainBatches + b) * disc_batches
        ELSE IF l \in trainable_weights("gen", c) THEN e * TrainBatches + b
        ELSE 0]

\* the files it left: config.save() after every batch, the weight files at
\* the end of an epoch or on KeyboardInterrupt
DiskAfter(c, e, b) ==
    [disc_weights |-> IF e = 0 /\ b = 0 THEN NoFile
                      ELSE SavedWeights("disc", c, WeightsAfter(c, e, b)),
     gen_weights  |-> IF e = 0 /\ b = 0 THEN NoFile
                      ELSE SavedWeights("gen", c, WeightsAfter(c, e, b)),
     config       |-> [epoch |-> e, batch |-> b]]

\* restore_keras_model(model, path, False): the model it was given, with the
\* weights of its own layers read from the file
restore_keras_model(model, c, file, w) ==
    [l \in LayerGroups |-> IF l \in trainable_weights(model, c) THEN file.w[l] ELSE w[l]]

\* `if config.epoch > 0:` restore both models
Restored(c, d) ==
    IF d.config.epoch > 0
    THEN restore_keras_model("gen", c, d.gen_weights,
             restore_keras_model("disc", c, d.disc_weights, [l \in LayerGroups |-> 0]))
    ELSE [l \in LayerGroups |-> 0]

\* the model is constructed anew (fresh optimizers), the epoch loop starts at
\* config.epoch
InitResume ==
    /\ cfg \in Configs
    /\ losses = _build_loss(cfg)
    /\ objective = [disc |-> disc_loss(losses), gen |-> gen_loss(losses)]
    /\ comp = NoComp
    /\ tens = NoTensors
    /\ build = NoBuild
    /\ data = NoData
    /\ scope = NoScope
    /\ \E e \in 0..(NumEpochs - 1), b \in 0..TrainBatches :
          /\ disk = DiskAfter(cfg, e, b)
          /\ epoch = e
    /\ weights = Restored(cfg, disk)
    /\ opt = [disc |-> NewAdam, gen |-> NewAdam]
    /\ report = NoReport
    /\ ncalls = 0
    /\ pc = "epoch"
    /\ batch = 0
    /\ disc_batch = 0
    /\ supply = [train |-> 0, val |-> 0]

SpecResume == InitResume /\ [][Next]_vars


\* ------------------------------------------------------ the loss composer
\* The two operations _build_loss is made of, applied in any order to any
\* name: `d[name] = value` on a loss dictionary and `_get_tensor(tensors, name)`
\* on a tensor collection of the configured model.
ComposeDicts == {"disc", "gen"}
ComposeNames == {"gen_loss_wgan", "gen_loss_rec"}
ComposeValues == {Atom("rec"), Atom("coh")}
LookupNames == {"score_out", "frame_score_out", "label_out", "true_label"}
Collections(c) == {real_outputs(c), fake_outputs(c), gen_inputs(c), place_holders(c)}

\* name in t.name for some t of the collection
Produced(tensors, name) ==
    \E i \in 1..Len(tensors.items) : Contains(tensors.items[i], name)

\* d[k] = v: OrderedDict.__setitem__ raises nothing
ComposeInsert ==
    /\ ~comp.raised
    /\ comp.steps < MaxCompose
    /\ \E d \in ComposeDicts, k \in ComposeNames, v \in ComposeValues :
        comp' = [dicts    |-> [comp.dicts EXCEPT ![d] = SetItem(@, k, v)],
                 steps    |-> comp.steps + 1,
                 collided |-> HasKey(comp.dicts[d], k),
                 missing  |-> FALSE,
                 silent   |-> FALSE,
                 raised   |-> FALSE,
                 got      |-> "none"]
    /\ UNCHANGED <<cfg, losses, objective, tens, build, data, scope, weights, opt, report, ncalls, pc, epoch, batch, disc_batch, supply, disk>>

\* _get_tensor(tensors, name): StopIteration propagates out of the composer
ComposeLookup ==
    /\ ~comp.raised
    /\ comp.steps < MaxCompose
    /\ \E tensors \in Collections(cfg), name \in LookupNames :
        LET t == _get_tensor(tensors, name)
        IN  comp' = [dicts    |-> comp.dicts,
                     steps    |-> comp.steps + 1,
                     collided |-> FALSE,
                     missing  |-> ~Produced(tensors, name),
                     silent   |-> ~Produced(tensors, name) /\ t # StopIteration,
                     raised   |-> t = StopIteration,
                     got      |-> t]
    /\ UNCHANGED <<cfg, losses, objective, tens, build, data, scope, weights, opt, report, ncalls, pc, epoch, batch, disc_batch, supply, disk>>

NextCompose == ComposeInsert \/ ComposeLookup

SpecCompose == Init /\ [][NextCompose]_vars

\* --------------------------------------- any caller of the entry points
CallDiscTrain ==
    /\ ncalls < MaxCalls
    /\ disc_train(Feed("caller", ncalls + 1))
    /\ UNCHANGED <<cfg, losses, objective, comp, tens, build, data, scope, pc, epoch, batch, disc_batch, supply, disk>>

CallDiscEval ==
    /\ ncalls < MaxCalls
    /\ disc_eval(Feed("caller", ncalls + 1))
    /\ UNCHANGED <<cfg, losses, objective, comp, tens, build, data, scope, pc, epoch, batch, disc_batch, supply, disk>>

CallGenTrain ==
    /\ ncalls < MaxCalls
    /\ gen_train(Feed("caller", ncalls + 1))
    /\ UNCHANGED <<cfg, losses, objective, comp, tens, build, data, scope, pc, epoch, batch, disc_batch, supply, disk>>

CallGenEval ==
    /\ ncalls < MaxCalls
    /\ gen_eval(Feed("caller", ncalls + 1))
    /\ UNCHANGED <<cfg, losses, objective, comp, tens, build, data, scope, pc, epoch, batch, disc_batch, supply, disk>>

NextAPI ==
    \/ CallDiscTrain
    \/ CallDiscEval
    \/ CallGenTrain
    \/ CallGenEval

SpecAPI == Init /\ [][NextAPI]_vars

\* ------------------------------------------------------- tensor operations
\* The arithmetic of _build_loss and _proc_gen_inputs on one sample: a pose
\* tensor is joints x frames x 3 integers, a mask joints x frames of 0 and 1.
Joints == 1..NJoints
Frames == 1..SeqLen
Coords == 1..3

RECURSIVE SumSeq(_)
SumSeq(s) == IF s = <<>> THEN 0 ELSE Head(s) + SumSeq(Tail(s))

\* input poses: every frame is one of four skeleton placements on the x axis
FrameKinds == {"zero", "line", "wide", "balanced"}
GenFrameKinds == {"zero", "line", "wide"}
Point(kind, j) ==
    CASE kind = "zero" -> <<0, 0, 0>>
      [] kind = "line" -> <<j, 0, 0>>
      [] kind = "wide" -> <<2 * j, 0, 0>>
      [] kind = "balanced" -> IF j = 1 THEN <<1, 0, 0>>
                              ELSE IF j = 2 THEN <<0 - 1, 0, 0>> ELSE <<0, 0, 0>>
Pose(kinds) == [j \in Joints |-> [t \in Frames |-> Point(kinds[t], j)]]
RealPoses == {Pose(k) : k \in [Frames -> FrameKinds]}
GenPoses == {Pose(k) : k \in [Frames -> GenFrameKinds]}

\* input masks: a frame is observed, unobserved, or observed at joint 1 only
MaskKinds == {"all", "none", "first"}
Mask(kinds) ==
    [j \in Joints |-> [t \in Frames |->
        IF kinds[t] = "all" \/ (kinds[t] = "first" /\ j = 1) THEN 1 ELSE 0]]
Masks == {Mask(k) : k \in [Frames -> MaskKinds]}

\* per-frame critic scores and interpolation coefficients (in tenths)
FrameScores == [Frames -> {0 - 1, 0, 1}]
AlphaValues == {0, 5, 10}

\* mutant: the mask is added instead of multiplied
MultiplyAdds(x, m) ==
    [j \in Joints |-> [t \in Frames |-> [c \in Coords |-> x[j][t][c] + m[j][t]]]]

\* Multiply()([x, x_mask]) and `seq * seq_mask`: the mask broadcast over the
\* coordinates
Multiply(x, m) ==
    [j \in Joints |-> [t \in Frames |-> [c \in Coords |-> x[j][t][c] * m[j][t]]]]

\* mutant: the feature extractor reads the raw sequence
gen_fex_input_unmasked(real_seq, seq_mask) == real_seq

\* the tensor _proc_gen_inputs hands to its first feature-extraction layer
gen_fex_input(real_seq, seq_mask) == Multiply(real_seq, seq_mask)

\* zero_sum = K.sum(real_seq, axis=(1, 3))
zero_sum(real_seq) ==
    [t \in Frames |-> SumSeq([j \in Joints |-> SumSeq(real_seq[j][t])])]

\* zero_frames = cast(zero_sum != 0) + K.epsilon(): a weight one + eps * epsilon
zero_frames(real_seq) ==
    [t \in Frames |-> [one |-> IF zero_sum(real_seq)[t] # 0 THEN 1 ELSE 0, eps |-> 1]]

\* value * weight, as a multiple of 1 and a multiple of epsilon
Weighted(v, w) == [one |-> v * w.one, eps |-> v * w.eps]

\* loss_rec before the sum over frames, times 3 (the mean over coordinates):
\* per frame the squared masked difference summed over joints, weighted
loss_rec_frames(real_seq, gen_seq, seq_mask) ==
    LET r == Multiply(real_seq, seq_mask)
        g == Multiply(gen_seq, seq_mask)
        sq(j, t) == SumSeq([c \in Coords |-> (r[j][t][c] - g[j][t][c]) * (r[j][t][c] - g[j][t][c])])
    IN  [t \in Frames |->
            Weighted(SumSeq([j \in Joints |-> sq(j, t)]), zero_frames(real_seq)[t])]

\* frame_loss_real / frame_loss_fake before the sum over frames
frame_loss_frames(frame_score, real_seq) ==
    [t \in Frames |-> Weighted(frame_score[t], zero_frames(real_seq)[t])]

SqDist(p, q) == SumSeq([c \in Coords |-> (p[c] - q[c]) * (p[c] - q[c])])
\* the square root of a perfect square
Root(n) == CHOOSE r \in 0..n : r * r = n

\* _edm(x)[i][j][t]: the distance between joints i and j in frame t.  The
\* K.epsilon() added under the root is below the resolution of the integer
\* distances of the input poses: entries are exact up to sqrt(epsilon).
_edm(x) ==
    [i \in Joints |-> [j \in Joints |-> [t \in Frames |-> Root(SqDist(x[i][t], x[j][t]))]]]

\* np.triu(m, k): the entries on and above the k-th diagonal
triu(m, k) == [i \in Joints |-> [j \in Joints |-> IF j - i >= k THEN m[i][j] ELSE 0]]

\* mask = np.triu(ones, 1) - np.triu(ones, 2)
shape_mask ==
    LET ones == [i \in Joints |-> [j \in Joints |-> 1]]
    IN  [i \in Joints |-> [j \in Joints |-> triu(ones, 1)[i][j] - triu(ones, 2)[i][j]]]

\* loss_shape times SeqLen^3: real_shape is the time mean of the real
\* distances, gen_shape the per-frame generated distances, both masked; the
\* squared difference is averaged over frames and summed over joint pairs
loss_shape(real_seq, gen_seq) ==
    LET real_sum(i, j) == SumSeq(_edm(real_seq)[i][j])
        d(i, j, t) == shape_mask[i][j] * real_sum(i, j)
                        - SeqLen * shape_mask[i][j] * _edm(gen_seq)[i][j][t]
    IN  SumSeq([i \in Joints |-> SumSeq([j \in Joints |->
            SumSeq([t \in Frames |-> d(i, j, t) * d(i, j, t)])])])

\* mutant: the roles of the two sequences are exchanged
interpolates_swapped(alpha, real_seq, gen_seq) ==
    [j \in Joints |-> [t \in Frames |-> [c \in Coords |->
        alpha * gen_seq[j][t][c] + (10 - alpha) * real_seq[j][t][c]]]]

\* interpolates = alpha * real_seq + (1 - alpha) * gen_seq, in tenths
interpolates(alpha, real_seq, gen_seq) ==
    [j \in Joints |-> [t \in Frames |-> [c \in Coords |->
        alpha * real_seq[j][t][c] + (10 - alpha) * gen_seq[j][t][c]]]]

\* grad_penalty: a function of K.gradients(inter_score, [interpolates]) with
\* inter_score = disc_model(interpolates)
grad_penalty(inter) == [critic_input |-> inter, gradient_wrt |-> inter]

InitTensor ==
    /\ cfg \in {c \in Configs :
                  /\ c.model_version = "v1" /\ c.use_pose_vae /\ c.shape_loss
                  /\ ~c.action_cond /\ c.latent_cond_dim = 0 /\ ~c.coherence_loss
                  /\ ~c.displacement_loss /\ ~c.smoothing_loss}
    /\ Constructed
    /\ tens \in {[real |-> r, gen |-> g, op |-> "none", arg |-> "none", out |-> "none"] :
                    r \in RealPoses, g \in GenPoses}
    /\ build = NoBuild
    /\ data = NoData
    /\ scope = NoScope

TensorOp(op, arg, out) ==
    /\ tens.op = "none"
    /\ tens' = [tens EXCEPT !.op = op, !.arg = arg, !.out = out]
    /\ UNCHANGED <<cfg, losses, objective, comp, build, data, scope, weights, opt, report, ncalls, pc, epoch, batch, disc_batch, supply, disk>>

GenInput ==
    \E m \in Masks : TensorOp("gen_fex_input", m, gen_fex_input(tens.real, m))

RecLoss ==
    \E m \in Masks : TensorOp("loss_rec", m, loss_rec_frames(tens.real, tens.gen, m))

FrameLoss ==
    \E sc \in FrameScores :
        TensorOp("frame_loss", sc, frame_loss_frames(sc, tens.real))

ShapeMask == TensorOp("shape_mask", "none", shape_mask)

ShapeLoss ==
    TensorOp("loss_shape", "none",
             [forward |-> loss_shape(tens.real, tens.gen),
              swapped |-> loss_shape(tens.gen, tens.real)])

Interpolate ==
    \E alpha \in AlphaValues :
        LET inter == interpolates(alpha, tens.real, tens.gen)
        IN  TensorOp("interpolates", alpha,
                     [interpolates |-> inter, grad_penalty |-> grad_penalty(inter)])

\* A tensor with its elements: shape and, for every index (0-based, one
\* sample), the element found there.  Elements of the decoder's output are
\* named <<t, k>>: frame t, position k of the flattened pose.
Indices(shape) ==
    IF Len(shape) = 2
    THEN {<<a, b>> : a \in 0..(shape[1] - 1), b \in 0..(shape[2] - 1)}
    ELSE {<<a, b, c>> : a \in 0..(shape[1] - 1), b \in 0..(shape[2] - 1),
                        c \in 0..(shape[3] - 1)}

\* row-major position of an index, and the index at a position
RECURSIVE Ravel(_, _)
Ravel(shape, i) ==
    IF shape = <<>> THEN 0
    ELSE Ravel(SubSeq(shape, 1, Len(shape) - 1), SubSeq(i, 1, Len(i) - 1)) * shape[Len(shape)]
         + i[Len(i)]

RECURSIVE Unravel(_, _)
Unravel(shape, p) ==
    IF shape = <<>> THEN <<>>
    ELSE Append(Unravel(SubSeq(shape, 1, Len(shape) - 1), p \div shape[Len(shape)]),
                p % shape[Len(shape)])

\* keras Reshape(target_shape)
ReshapeValues(x, target_shape) ==
    [shape |-> target_shape,
     at |-> [i \in Indices(target_shape) |-> x.at[Unravel(x.shape, Ravel(target_shape, i))]]]

\* keras Permute(dims): output axis d is input axis dims[d]
PermuteValues(x, dims) ==
    LET out_shape == [d \in 1..Len(dims) |-> x.shape[dims[d]]]
        Source(i) == [a \in 1..Len(dims) |->
                        i[CHOOSE d \in 1..Len(dims) : dims[d] = a]]
    IN  [shape |-> out_shape, at |-> [i \in Indices(out_shape) |-> x.at[Source(i)]]]

\* the output of pose_vae/dec_out: (seq_len, vae_original_dim)
dec_out ==
    [shape |-> <<SeqLen, 3 * NJoints>>,
     at |-> [i \in Indices(<<SeqLen, 3 * NJoints>>) |-> i]]

\* pose_vae/resh_out and pose_vae/perm_out
vae_gen_x ==
    PermuteValues(ReshapeValues(dec_out, <<SeqLen, NJoints, 3>>), <<2, 1, 3>>)

\* generator/coords_reshape and generator/coords_permute, applied to vae_gen_x
vae_gen_outputs ==
    PermuteValues(ReshapeValues(vae_gen_x, <<SeqLen, NJoints, 3>>), <<2, 1, 3>>)

\* _proc_gen_outputs with the pose sub-encoder
GenOutput == TensorOp("gen_outputs", "none", vae_gen_outputs)

NextTensor ==
    \/ GenInput
    \/ RecLoss
    \/ FrameLoss
    \/ ShapeMask
    \/ ShapeLoss
    \/ Interpolate
    \/ GenOutput

SpecTensor == InitTensor /\ [][NextTensor]_vars

\* ------------------------------------------------- generator construction
\* The shapes (without the batch axis) of the tensors created while
\* __init__ builds gen_model: _proc_gen_inputs, generator, _proc_gen_outputs.
\* A layer call either yields a shape or raises.
Ok(shape) == [ok |-> TRUE, shape |-> shape, error |-> "none"]
Fail(msg) == [ok |-> FALSE, shape |-> <<>>, error |-> msg]

CeilDiv(a, s) == (a + s - 1) \div s

RECURSIVE Prod(_)
Prod(shape) == IF shape = <<>> THEN 1 ELSE Head(shape) * Prod(Tail(shape))

\* Conv2D / Conv2DTranspose with padding 'same' on a channels-last tensor
Conv2D(x, filters, s1, s2) ==
    IF Len(x) # 3 THEN Fail("Conv2D: expected ndim=4")
    ELSE Ok(<<CeilDiv(x[1], s1), CeilDiv(x[2], s2), filters>>)
Conv2DTranspose(x, filters, s1, s2) ==
    IF Len(x) # 3 THEN Fail("Conv2DTranspose: expected ndim=4")
    ELSE Ok(<<x[1] * s1, x[2] * s2, filters>>)

Reshape(x, target) ==
    IF Prod(x) = Prod(target) THEN Ok(target)
    ELSE Fail("Reshape: total size of new array must be unchanged")

\* Concatenate()([x, x_lat]) with the rank-1 latent input
Concatenate(x, latent_cond_dim) ==
    IF Len(x) = 1 THEN Ok(<<x[1] + latent_cond_dim>>)
    ELSE Fail("Concatenate: inputs must have matching shapes except for the concat axis")

\* the seq_fex loop of _proc_gen_inputs: `while (x.shape[1] > 1 and
\* time_pres_emb) or (i < 3)`, each block a strided Conv2D
RECURSIVE seq_fex(_, _, _)
seq_fex(x, i, time_pres_emb) ==
    IF (x[1] > 1 /\ time_pres_emb) \/ i < 3
    THEN LET n_hidden == IF time_pres_emb THEN 32 ELSE 128
             num_block == n_hidden * (((i + 1) \div 2) + 1)
             y == Conv2D(x, num_block, 2, IF time_pres_emb THEN 1 ELSE 2)
         IN  seq_fex(y.shape, i + 1, time_pres_emb)
    ELSE [shape |-> x, nblocks |-> i]

\* _proc_gen_inputs: the shape handed to generator() and self.nblocks
_proc_gen_inputs(c, b) ==
    LET masked == <<b.njoints, b.seq_len, 3>>
        fex == seq_fex(masked, 0, b.time_pres_emb)
        x == IF c.use_pose_vae THEN <<b.seq_len, b.njoints * 3, 1>>
             ELSE IF b.time_pres_emb THEN fex.shape
             ELSE <<fex.shape[3]>>
        nblocks == IF c.use_pose_vae THEN 4 ELSE fex.nblocks
        out == IF c.latent_cond_dim > 0 THEN Concatenate(x, c.latent_cond_dim) ELSE Ok(x)
    IN  [ok |-> out.ok, shape |-> out.shape, error |-> out.error, nblocks |-> nblocks]

\* the residual blocks of MotionGANV1.generator: block i has 32 * (i + 1)
\* filters and upsamples by its strides
RECURSIVE v1_blocks(_, _, _, _, _)
v1_blocks(x, i, nblocks, s1, s2) ==
    IF i >= nblocks \/ ~x.ok THEN x
    ELSE v1_blocks(Conv2DTranspose(x.shape, 32 * (i + 1), s1, s2), i + 1, nblocks, s1, s2)

generator_v1(c, b, x) ==
    LET dense == ~(b.time_pres_emb \/ c.use_pose_vae)
        x_in == IF dense THEN Reshape(<<4 * 4 * 32>>, <<4, 4, 32>>) ELSE Ok(x)
        s1 == IF b.time_pres_emb THEN 2 ELSE IF c.use_pose_vae THEN 1 ELSE 2
        s2 == IF b.time_pres_emb THEN 1 ELSE IF c.use_pose_vae THEN 1 ELSE 2
    IN  v1_blocks(x_in, 0, b.nblocks, s1, s2)

\* MotionGANV2.generator: _seq_shift assigns to a slice of a backend tensor
\* in the first block
generator_v2(c, b, x) ==
    IF b.nblocks > 0
    THEN Fail("_seq_shift: 'Tensor' object does not support item assignment")
    ELSE Ok(x)

\* MotionGANV3.generator: Flatten, dense blocks, Dense to J * (T // 2) * 3,
\* Reshape
generator_v3(c, b, x) ==
    Reshape(<<b.njoints * (b.seq_len \div 2) * 3>>, <<b.njoints, b.seq_len \div 2, 3>>)

generator(c, b, x) ==
    CASE c.model_version = "v1" -> generator_v1(c, b, x)
      [] c.model_version = "v2" -> generator_v2(c, b, x)
      [] c.model_version = "v3" -> generator_v3(c, b, x)

\* _proc_gen_outputs
_proc_gen_outputs(c, b, x) ==
    IF c.use_pose_vae
    THEN LET merged == Conv2D(x, 1, 1, 1)
             vae_gen_z == IF merged.ok
                          THEN Reshape(merged.shape, <<b.seq_len, b.njoints * 3>>)
                          ELSE merged
             dec_x == Reshape(<<b.seq_len, b.njoints * 3>>, <<b.seq_len, b.njoints, 3>>)
             coords == Reshape(<<b.njoints, b.seq_len, 3>>, <<b.seq_len, b.njoints, 3>>)
         IN  IF ~vae_gen_z.ok THEN vae_gen_z
             ELSE IF ~dec_x.ok THEN dec_x
             ELSE IF ~coords.ok THEN coords
             ELSE Ok(<<coords.shape[2], coords.shape[1], coords.shape[3]>>)
    ELSE IF Len(x) # 3 THEN Fail("Permute: expected ndim=4")
    ELSE LET joint == Conv2D(<<x[3], x[2], x[1]>>, b.njoints, 1, 1).shape
             time == Conv2D(<<joint[1], joint[3], joint[2]>>, b.seq_len, 1, 1).shape
         IN  Conv2D(<<time[2], time[3], time[1]>>, 3, 1, 1)

\* a configuration whose generator is about to be built; nothing is composed yet
InitBuild ==
    /\ cfg \in {c \in Configs :
                  /\ ~c.action_cond /\ ~c.coherence_loss /\ ~c.displacement_loss
                  /\ ~c.shape_loss /\ ~c.smoothing_loss}
    /\ losses = EmptyDicts
    /\ objective = [disc |-> Zero, gen |-> Zero]
    /\ comp = NoComp
    /\ weights = [l \in LayerGroups |-> 0]
    /\ opt = [disc |-> NewAdam, gen |-> NewAdam]
    /\ report = NoReport
    /\ ncalls = 0
    /\ pc = "construct"
    /\ epoch = 0
    /\ batch = 0
    /\ disc_batch = 0
    /\ supply = [train |-> 0, val |-> 0]
    /\ disk = [disc_weights |-> NoFile, gen_weights |-> NoFile,
               config |-> [epoch |-> 0, batch |-> 0]]
    /\ tens = NoTensors
    /\ build \in {[stage |-> "inputs", time_pres_emb |-> tpe, njoints |-> nj,
                   seq_len |-> sl, shape |-> <<nj, sl, 3>>, nblocks |-> 0,
                   error |-> "none"] :
                     tpe \in BOOLEAN, nj \in 1..MaxBuildJoints, sl \in 2..MaxBuildFrames}
    /\ data = NoData
    /\ scope = NoScope

\* one construction step: the stage's result becomes the current tensor, or
\* the exception ends the construction
BuildStep(from, to, r, nblocks) ==
    /\ build.stage = from
    /\ build' = IF r.ok
                THEN [build EXCEPT !.stage = to, !.shape = r.shape, !.nblocks = nblocks]
                ELSE [build EXCEPT !.stage = "failed", !.shape = <<>>, !.error = r.error]
    /\ UNCHANGED <<cfg, losses, objective, comp, tens, data, scope, weights, opt, report, ncalls, pc, epoch, batch, disc_batch, supply, disk>>

ProcGenInputs ==
    LET r == _proc_gen_inputs(cfg, build)
    IN  BuildStep("inputs", "gen_inputs", r, r.nblocks)

Generator ==
    BuildStep("gen_inputs", "generator", generator(cfg, build, build.shape), build.nblocks)

ProcGenOutputs ==
    BuildStep("generator", "gen_model",
              _proc_gen_outputs(cfg, build, build.shape), build.nblocks)

NextBuild == ProcGenInputs \/ Generator \/ ProcGenOutputs

SpecBuild == InitBuild /\ [][NextBuild]_vars

\* ---------------------------------------------------------- model selection
\* train.py from get_config to tensorboard.set_model: the configuration is
\* whatever dictionary the loader read (the template files of the repository
\* say 'v7').
LoadedVersions == ModelVersions \cup {"v7"}
LoadedTypes == {"motiongan", "dmnn"}

InitSelect ==
    /\ cfg \in {[c EXCEPT !.model_version = v] :
                  c \in {k \in Configs :
                           /\ ~k.action_cond /\ ~k.coherence_loss /\ ~k.displacement_loss
                           /\ ~k.shape_loss /\ ~k.smoothing_loss},
                  v \in LoadedVersions}
    /\ losses = EmptyDicts
    /\ objective = [disc |-> Zero, gen |-> Zero]
    /\ comp = NoComp
    /\ weights = [l \in LayerGroups |-> 0]
    /\ opt = [disc |-> NewAdam, gen |-> NewAdam]
    /\ report = NoReport
    /\ ncalls = 0
    /\ pc = "select"
    /\ epoch = 0
    /\ batch = 0
    /\ disc_batch = 0
    /\ supply = [train |-> 0, val |-> 0]
    /\ disk = [disc_weights |-> NoFile, gen_weights |-> NoFile,
               config |-> [epoch |-> 0, batch |-> 0]]
    /\ tens = NoTensors
    /\ build \in {[stage |-> "config", model_type |-> mt, model_wrap |-> "unbound",
                   time_pres_emb |-> tpe, njoints |-> nj,
                   seq_len |-> sl, shape |-> <<nj, sl, 3>>, nblocks |-> 0,
                   error |-> "none"] :
                     mt \in LoadedTypes, tpe \in BOOLEAN,
                     nj \in 1..MaxBuildJoints, sl \in 2..MaxBuildFrames}
    /\ data = NoData
    /\ scope = NoScope

\* the three `if config.model_version == ...` statements: the class whose
\* constructor runs, if any
selected_class(model_type, model_version) ==
    IF model_type = "motiongan" /\ model_version \in ModelVersions
    THEN "MotionGAN" \o model_version
    ELSE "unbound"

\* `# Model building`: the constructor of the selected class starts, or
\* model_wrap stays unbound
SelectModel ==
    /\ build.stage = "config"
    /\ build' = [build EXCEPT
                    !.model_wrap = selected_class(build.model_type, cfg.model_version),
                    !.stage = IF selected_class(build.model_type, cfg.model_version) = "unbound"
                              THEN "no_model" ELSE "inputs"]
    /\ UNCHANGED <<cfg, losses, objective, comp, tens, data, scope, weights, opt, report, ncalls, pc, epoch, batch, disc_batch, supply, disk>>

\* the first use of model_wrap after the selection
UseModelWrap ==
    /\ build.stage = "no_model"
    /\ build' = [build EXCEPT !.stage = "failed", !.error = "NameError: model_wrap"]
    /\ UNCHANGED <<cfg, losses, objective, comp, tens, data, scope, weights, opt, report, ncalls, pc, epoch, batch, disc_batch, supply, disk>>

NextSelect ==
    \/ SelectModel
    \/ UseModelWrap
    \/ NextBuild

SpecSelect == InitSelect /\ [][NextSelect]_vars

\* ---------------------------------------------------------------- DataInput
\* A sample is its index into the key list; a batch is a sequence of samples.
Min(a, b) == IF a < b THEN a ELSE b

\* labs[slice_start:slice_len, ...]
Slice(slice_start, slice_len) ==
    [i \in 1..(IF slice_len > slice_start THEN slice_len - slice_start ELSE 0) |->
        slice_start + i - 1]

\* mutant: a short slice is left as it is
extra_count_none(have, batch_size) == 0

\* the number of random samples a short slice is filled up with
extra_count(have, batch_size) == batch_size - have

\* np.random.random_integers(0, n - 1, k): here the constant draws and the
\* ascending one
random_integers(n, k) ==
    {[i \in 1..k |-> c] : c \in 0..(n - 1)} \cup {[i \in 1..k |-> (i - 1) % n]}

\* the batches one pass of the loop of pre_comp_batches can append
precomp_slices(slice_idx, batch_size, len_keys) ==
    LET slice_start == slice_idx * batch_size
        slice_len   == Min(slice_start + batch_size, len_keys)
        labs_batch  == Slice(slice_start, slice_len)
    IN  IF Len(labs_batch) < batch_size
        THEN {labs_batch \o extra :
                extra \in random_integers(len_keys, extra_count(Len(labs_batch), batch_size))}
        ELSE {labs_batch}

\* `batches *= epoch_factor`
RECURSIVE Repeat(_, _)
Repeat(xs, k) == IF k <= 0 THEN <<>> ELSE xs \o Repeat(xs, k - 1)

\* sub_sample_batch: with pick_num or crop_len the samples are copied, frames
\* sub-sampled, into new arrays of batch_size rows
sub_sample_batch(b, batch_size, resample) ==
    IF ~resample THEN [ok |-> TRUE, batch |-> b]
    ELSE IF Len(b) # batch_size THEN [ok |-> FALSE, batch |-> <<>>]
    ELSE [ok |-> TRUE, batch |-> [i \in 1..batch_size |-> b[i]]]

\* mutant: indices drawn independently
permutation_with_repeats(n) == [1..n -> 0..(n - 1)]

\* np.random.permutation(n)
permutation(n) ==
    {p \in [1..n -> 0..(n - 1)] : \A i, j \in 1..n : p[i] = p[j] => i = j}

\* DataInput.__init__ up to the first pre_comp_batches, for one of the two
\* splits; with only_val the training batches are never computed
InitData ==
    /\ cfg \in {c \in Configs : c.model_version = "v1" /\ ~c.action_cond /\ c.latent_cond_dim = 0
                                 /\ ~c.coherence_loss /\ ~c.displacement_loss /\ ~c.shape_loss
                                 /\ ~c.smoothing_loss /\ ~c.use_pose_vae}
    /\ Constructed
    /\ tens = NoTensors
    /\ build = NoBuild
    /\ scope = NoScope
    /\ data \in {[stage |-> IF tr /\ ov THEN "ready" ELSE "precomp",
                   len_keys |-> n, batch_size |-> bs, epoch_factor |-> f,
                   only_val |-> ov, is_training |-> tr, resample |-> rs,
                   epoch_size |-> (n \div bs) + 1,
                   batches |-> <<>>, rand_indices |-> <<>>, slice_idx |-> 0,
                   served |-> <<>>, out |-> <<>>] :
                    n \in 1..MaxKeys, bs \in 1..MaxBatchSize, f \in 1..MaxEpochFactor,
                    ov \in BOOLEAN, tr \in BOOLEAN, rs \in BOOLEAN}
    /\ ((data.len_keys \div data.batch_size) + 1) * data.epoch_factor <= MaxEpochSize

\* one pass of the loop of pre_comp_batches
PreCompSlice ==
    /\ data.stage = "precomp"
    /\ Len(data.batches) < data.epoch_size
    /\ \E b \in precomp_slices(Len(data.batches), data.batch_size, data.len_keys) :
          data' = [data EXCEPT !.batches = Append(@, b)]
    /\ UNCHANGED <<cfg, losses, objective, comp, tens, build, scope, weights, opt, report, ncalls, pc, epoch, batch, disc_batch, supply, disk>>

\* pre_comp_batches returns; for the training split the list and the epoch
\* size are multiplied by epoch_factor
PreCompDone ==
    /\ data.stage = "precomp"
    /\ Len(data.batches) = data.epoch_size
    /\ data' = IF data.is_training
                THEN [data EXCEPT !.stage = "ready",
                                  !.batches = Repeat(@, data.epoch_factor),
                                  !.epoch_size = @ * data.epoch_factor]
                ELSE [data EXCEPT !.stage = "ready"]
    /\ UNCHANGED <<cfg, losses, objective, comp, tens, build, scope, weights, opt, report, ncalls, pc, epoch, batch, disc_batch, supply, disk>>

\* the first next() of batch_generator(is_training): the generator body reads
\* self.train_batches or self.val_batches
GeneratorStart ==
    /\ data.stage = "ready"
    /\ data' = IF data.is_training /\ data.only_val
                THEN [data EXCEPT !.stage = "error"]
                ELSE [data EXCEPT !.stage = "generating", !.slice_idx = data.epoch_size]
    /\ UNCHANGED <<cfg, losses, objective, comp, tens, build, scope, weights, opt, report, ncalls, pc, epoch, batch, disc_batch, supply, disk>>

\* top of `while True`: a new permutation
DrawPermutation ==
    /\ data.stage = "generating"
    /\ data.slice_idx = data.epoch_size
    /\ \E p \in permutation(data.epoch_size) :
          data' = [data EXCEPT !.rand_indices = p, !.slice_idx = 0, !.served = <<>>]
    /\ UNCHANGED <<cfg, losses, objective, comp, tens, build, scope, weights, opt, report, ncalls, pc, epoch, batch, disc_batch, supply, disk>>

\* one yield of the inner loop
Yield ==
    /\ data.stage = "generating"
    /\ data.slice_idx < data.epoch_size
    /\ LET idx == IF ~data.only_val THEN data.rand_indices[data.slice_idx + 1]
                   ELSE data.slice_idx
            r   == IF idx + 1 \in 1..Len(data.batches)
                   THEN sub_sample_batch(data.batches[idx + 1], data.batch_size, data.resample)
                   ELSE [ok |-> FALSE, batch |-> <<>>]
       IN  data' = IF r.ok
                   THEN [data EXCEPT !.out = r.batch, !.served = Append(@, idx),
                                     !.slice_idx = @ + 1]
                   ELSE [data EXCEPT !.stage = "error"]
    /\ UNCHANGED <<cfg, losses, objective, comp, tens, build, scope, weights, opt, report, ncalls, pc, epoch, batch, disc_batch, supply, disk>>

NextData ==
    \/ PreCompSlice
    \/ PreCompDone
    \/ GeneratorStart
    \/ DrawPermutation
    \/ Yield

SpecData == InitData /\ [][NextData]_vars

\* ------------------------------------------------------------------ Scoping
\* One Scoping object (the one get_global_scope returns) and the name_scope
\* generators suspended at their `yield`: each holds its argument `scope`
\* and its local `old_stack`.  A block is opened by a `with` statement or by
\* a function decorated with scope_wrapper, which passes func.__name__.
ScopeNames == {"foo", "bar", "baz"}
ScopeKinds == {"with", "scope_wrapper"}

\* mutant: the separator is added to an empty stack too
entered_stack_always_slash(name_stack, name) == name_stack \o "/" \o name

\* name_scope up to its yield: the new value of _name_stack
entered_stack(name_stack, name) ==
    IF name_stack = "" THEN name ELSE name_stack \o "/" \o name

InitScope ==
    /\ cfg \in {c \in Configs : c.model_version = "v1" /\ ~c.action_cond /\ c.latent_cond_dim = 0
                                 /\ ~c.coherence_loss /\ ~c.displacement_loss /\ ~c.shape_loss
                                 /\ ~c.smoothing_loss /\ ~c.use_pose_vae}
    /\ Constructed
    /\ tens = NoTensors
    /\ build = NoBuild
    /\ data = NoData
    /\ scope = [stage |-> "open", _name_stack |-> "", blocks |-> <<>>, raising |-> FALSE]

\* `with scope.name_scope(name):` or a call of a wrapped function
EnterScope ==
    /\ scope.stage = "open"
    /\ ~scope.raising
    /\ Len(scope.blocks) < MaxDepth
    /\ \E name \in ScopeNames, kind \in ScopeKinds :
          scope' = [scope EXCEPT
                      !._name_stack = entered_stack(@, name),
                      !.blocks = Append(@, [scope |-> name, kind |-> kind,
                                            old_stack |-> scope._name_stack])]
    /\ UNCHANGED <<cfg, losses, objective, comp, tens, build, data, weights, opt, report, ncalls, pc, epoch, batch, disc_batch, supply, disk>>

\* the generator resumed after its yield, by the end of the body or by the
\* exception thrown into it: `finally: self._name_stack = old_stack`
LeaveScope ==
    /\ scope.stage = "open"
    /\ scope.blocks # <<>>
    /\ scope' = [scope EXCEPT
                    !._name_stack = scope.blocks[Len(scope.blocks)].old_stack,
                    !.blocks = SubSeq(@, 1, Len(@) - 1)]
    /\ UNCHANGED <<cfg, losses, objective, comp, tens, build, data, weights, opt, report, ncalls, pc, epoch, batch, disc_batch, supply, disk>>

\* an exception is raised in the body of the innermost block
RaiseInBody ==
    /\ scope.stage = "open"
    /\ ~scope.raising
    /\ scope.blocks # <<>>
    /\ scope' = [scope EXCEPT !.raising = TRUE]
    /\ UNCHANGED <<cfg, losses, objective, comp, tens, build, data, weights, opt, report, ncalls, pc, epoch, batch, disc_batch, supply, disk>>

\* the propagating exception is handled in the body of the block it reached,
\* or ends the program once no block is left
HandleException ==
    /\ scope.stage = "open"
    /\ scope.raising
    /\ scope' = [scope EXCEPT !.raising = FALSE]
    /\ UNCHANGED <<cfg, losses, objective, comp, tens, build, data, weights, opt, report, ncalls, pc, epoch, batch, disc_batch, supply, disk>>

NextScope ==
    \/ EnterScope
    \/ LeaveScope
    \/ RaiseInBody
    \/ HandleException

SpecScope == InitScope /\ [][NextScope]_vars

\* ================================================================ claims
DiscOwned == {l \in LayerGroups : StartsWith(l, "discriminator")}
GenOwned == LayerGroups \ DiscOwned
Called(name) == ncalls' # ncalls /\ report'.call = name

C2_UpdatesStayInOwnNetwork ==
    [][ /\ Called("disc_train") =>
            /\ \A l \in GenOwned : weights'[l] = weights[l]
            /\ opt'.gen = opt.gen
            /\ weights'["discriminator"] # weights["discriminator"]
            /\ opt'.disc.iterations = opt.disc.iterations + 1
        /\ Called("gen_train") =>
            /\ \A l \in DiscOwned : weights'[l] = weights[l]
            /\ opt'.disc = opt.disc
            /\ weights'["generator"] # weights["generator"]
            /\ opt'.gen.iterations = opt.gen.iterations + 1
      ]_vars

\* both networks were updated with the pose sub-encoder active
C2_Witness ==
    /\ cfg.use_pose_vae
    /\ weights["discriminator/pose_vae"] = 1
    /\ weights["pose_vae"] = 1
    /\ report.call = "gen_train"

ScalarExprs(items) ==
    LET sel == SelectSeq(items, LAMBDA it : it.val.scalar)
    IN  [i \in 1..Len(sel) |-> sel[i].val.expr]
OutExprs(outs) == [i \in 1..Len(outs) |-> outs[i].expr]

\* C3: an eval call leaves all weights and both optimizers as they were and
\* computes the loss terms of the corresponding train call.
C3_EvalMutatesNothing ==
    [][ /\ Called("disc_eval") =>
            /\ weights' = weights
            /\ opt' = opt
            /\ ScalarExprs(report'.items) = OutExprs(disc_train_f_outs(losses))
        /\ Called("gen_eval") =>
            /\ weights' = weights
            /\ opt' = opt
            /\ ScalarExprs(report'.items) = OutExprs(gen_train_f_outs(losses))
      ]_vars

\* an eval call made after both networks were trained
C3_Witness ==
    /\ report.call \in {"disc_eval", "gen_eval"}
    /\ opt.disc.iterations = 1
    /\ opt.gen.iterations = 1

DiscPaths == {"real", "fake", "inter", "gan"}

DictNames == {"wgan", "disc", "gen"}

AtomsOf(ls) ==
    UNION {UNION {DOMAIN ls[n][i].val : i \in 1..Len(ls[n])} : n \in DictNames}

RECURSIVE SumCoef(_, _)
SumCoef(d, a) == IF d = <<>> THEN 0 ELSE Coef(Head(d).val, a) + SumCoef(Tail(d), a)

\* C5: the scalar each optimizer minimises is the sum of the values of its own
\* dictionary; the wgan entries are reported by the discriminator calls but
\* are no summands of either scalar.
C5_ObjectiveIsSumOfOwnDict ==
    /\ DOMAIN objective.disc \subseteq AtomsOf(losses)
    /\ DOMAIN objective.gen \subseteq AtomsOf(losses)
    /\ \A a \in AtomsOf(losses) :
        /\ Coef(objective.disc, a) = SumCoef(losses.disc, a)
        /\ Coef(objective.gen, a) = SumCoef(losses.gen, a)
    /\ opt.disc.iterations > 0 => opt.disc.moments.grad_of = objective.disc
    /\ opt.gen.iterations > 0 => opt.gen.moments.grad_of = objective.gen
    /\ report.call = "disc_train" =>
        \A i \in 1..Len(losses.wgan) :
            HasKey(report.items, "train/" \o losses.wgan[i].key)

\* both optimizers have stepped, frame-level and action entries present
C5_Witness ==
    /\ cfg.use_pose_vae /\ cfg.action_cond
    /\ opt.disc.iterations > 0 /\ opt.gen.iterations > 0
    /\ report.call = "disc_train"

In(d, k) == HasKey(losses[d], k)

\* C6: an optional loss name is in its dictionary exactly when its flag is
\* enabled; the six basic names are in their dictionaries in every
\* configuration.
C6_MembershipFollowsFlags ==
    /\ In("gen", "gen_loss_coh") <=> cfg.coherence_loss
    /\ In("gen", "gen_loss_disp") <=> cfg.displacement_loss
    /\ In("gen", "gen_loss_shape") <=> cfg.shape_loss
    /\ In("gen", "gen_loss_smooth") <=> cfg.smoothing_loss
    /\ In("disc", "disc_loss_action") <=> cfg.action_cond
    /\ In("gen", "gen_loss_action") <=> cfg.action_cond
    /\ In("disc", "disc_loss_latent") <=> cfg.latent_cond_dim > 0
    /\ In("gen", "gen_loss_latent") <=> cfg.latent_cond_dim > 0
    /\ In("wgan", "frame_loss_real") <=> cfg.use_pose_vae
    /\ In("wgan", "frame_loss_fake") <=> cfg.use_pose_vae
    /\ In("disc", "frame_disc_loss_wgan") <=> cfg.use_pose_vae
    /\ In("gen", "frame_gen_loss_wgan") <=> cfg.use_pose_vae
    /\ In("wgan", "loss_real") /\ In("wgan", "loss_fake")
    /\ In("disc", "disc_loss_wgan") /\ In("gen", "gen_loss_wgan")
    /\ In("gen", "gen_loss_rec") /\ In("gen", "gen_loss_rec_edm")

\* a generator report of a model composed with some optional losses on and
\* others off
C6_Witness ==
    /\ cfg.use_pose_vae /\ cfg.displacement_loss /\ cfg.latent_cond_dim > 0
    /\ ~cfg.coherence_loss /\ ~cfg.action_cond
    /\ In("wgan", "frame_loss_fake") /\ ~In("disc", "disc_loss_action")
    /\ report.call = "gen_train"
    /\ HasKey(report.items, "train/gen_loss_disp")
    /\ ~HasKey(report.items, "train/gen_loss_coh")

IsTrain(call) == call \in {"disc_train", "gen_train"}
IsDisc(call) == call \in {"disc_train", "disc_eval"}
PrefixOf(call) == IF IsTrain(call) THEN "train/" ELSE "val/"
StripPrefix(key, prefix) == SubSeq(key, Len(prefix) + 1, Len(key))
\* the dictionary items a report is made from
SourceOf(call) == IF IsDisc(call) THEN losses.wgan \o losses.disc ELSE losses.gen

IsPrefixedLoss(item, call) ==
    /\ StartsWith(item.key, PrefixOf(call))
    /\ HasKey(SourceOf(call), StripPrefix(item.key, PrefixOf(call)))
    /\ item.val.scalar

\* C7 as stated: every key of every report is a loss name under the call's
\* prefix and every value is a scalar loss.
C7_Original ==
    report.call # "none" =>
        \A i \in 1..Len(report.items) : IsPrefixedLoss(report.items[i], report.call)

\* the trailing items of gen_eval's report
GenEvalExtras(c) == (IF c.use_pose_vae THEN <<"vae_z">> ELSE <<>>) \o <<"gen_outputs">>

\* C7 (amended): the keys of disc_train, gen_train and disc_eval reports are
\* loss names under "train/" resp. "val/" with scalar values; so are the keys
\* of gen_eval's report except its last items "vae_z" (pose sub-encoder
\* active) and "gen_outputs", which are unprefixed and hold tensors.
C7_PrefixedExceptGenEvalTensors ==
    report.call # "none" =>
        LET n == Len(report.items)
            x == IF report.call = "gen_eval" THEN Len(GenEvalExtras(cfg)) ELSE 0
        IN  /\ n > x
            /\ \A i \in 1..(n - x) : IsPrefixedLoss(report.items[i], report.call)
            /\ \A i \in (n - x + 1)..n :
                /\ report.items[i].key = GenEvalExtras(cfg)[i - (n - x)]
                /\ ~report.items[i].val.scalar

\* a gen_eval report with the pose sub-encoder active
C7_Witness ==
    /\ report.call = "gen_eval"
    /\ cfg.use_pose_vae
    /\ HasKey(report.items, "vae_z") /\ HasKey(report.items, "gen_outputs")

\* the order in which _build_loss declares the loss names
DeclarationOrder ==
    << "loss_real", "loss_fake", "disc_loss_wgan", "gen_loss_wgan",
       "disc_loss_reg", "gen_loss_reg", "gen_loss_rec", "gen_loss_rec_edm",
       "frame_loss_real", "frame_loss_fake", "frame_disc_loss_wgan",
       "frame_gen_loss_wgan", "disc_loss_action", "gen_loss_action",
       "disc_loss_latent", "gen_loss_latent", "gen_loss_coh", "gen_loss_disp",
       "gen_loss_shape", "gen_loss_smooth" >>
Declared(k) == \E i \in 1..Len(DeclarationOrder) : DeclarationOrder[i] = k
Rank(k) == CHOOSE i \in 1..Len(DeclarationOrder) : DeclarationOrder[i] = k
InDeclarationOrder(d) ==
    /\ \A i \in 1..Len(d) : Declared(d[i].key)
    /\ \A i, j \in 1..Len(d) : i < j => Rank(d[i].key) < Rank(d[j].key)

\* C8: a report lists its entries in insertion order, the wgan dictionary
\* before the discriminator dictionary; the i-th value is the value of the
\* loss named by the i-th key; two names keep their relative order in every
\* configuration (each dictionary follows the one declaration order).
C8_ReportsFollowInsertionOrder ==
    /\ \A n \in DictNames : InDeclarationOrder(losses[n])
    /\ report.call # "none" =>
        LET src == SourceOf(report.call)
        IN  /\ Len(report.items) >= Len(src)
            /\ report.call # "gen_eval" => Len(report.items) = Len(src)
            /\ \A i \in 1..Len(src) :
                /\ report.items[i].key = PrefixOf(report.call) \o src[i].key
                /\ report.items[i].val.expr = src[i].val

\* a discriminator report with frame-level, action and latent entries
C8_Witness ==
    /\ report.call = "disc_train"
    /\ cfg.use_pose_vae /\ cfg.action_cond /\ cfg.latent_cond_dim > 0
    /\ Len(report.items) = Len(losses.wgan) + Len(losses.disc)
    /\ Len(losses.wgan) = 4

\* C9 as stated: the composer fails, and yields no value, when a loss is
\* inserted under a name already present in the same dictionary or when a
\* tensor is requested by a name no tensor of the collection carries.
C9_Original ==
    /\ comp.collided => comp.raised
    /\ comp.missing => comp.raised /\ ~comp.silent

RealScore == "discriminator/score_out/BiasAdd:0"
FakeScore(c) == ModelName(c) \o "_discriminator/discriminator/score_out/BiasAdd:0"
InterScore(c) == ModelName(c) \o "_discriminator_1/discriminator/score_out/BiasAdd:0"
FakeFrame(c) == ModelName(c) \o "_discriminator/discriminator/frame_score_out/BiasAdd:0"
RealFrame == "discriminator/frame_score_out/BiasAdd:0"
InterFrame(c) ==
    ModelName(c) \o "_discriminator_1/discriminator/frame_score_out/BiasAdd:0"
IsPenalty(a) == Contains(a, "grad_penalty(")
NoPenaltyIn(d) == \A i \in 1..Len(d) : \A a \in DOMAIN d[i].val : ~IsPenalty(a)

\* C10: disc_loss_wgan = loss_fake - loss_real + lambda_grads * penalty,
\* gen_loss_wgan = -loss_fake; the penalties (sequence-level and frame-level)
\* are summands of discriminator entries only, no generator entry (nor the
\* generator objective) depends on them.
C10_PenaltyInDiscriminatorOnly ==
    /\ Get(losses.disc, "disc_loss_wgan") =
           [a \in {"mean(" \o FakeScore(cfg) \o ")", "mean(" \o RealScore \o ")",
                   "grad_penalty(" \o InterScore(cfg) \o ")"} |->
               IF a = "mean(" \o FakeScore(cfg) \o ")" THEN 10
               ELSE IF a = "mean(" \o RealScore \o ")" THEN 0 - 10
               ELSE lambda_grads]
    /\ Get(losses.gen, "gen_loss_wgan") =
           [a \in {"mean(" \o FakeScore(cfg) \o ")"} |-> 0 - 10]
    /\ NoPenaltyIn(losses.gen)
    /\ NoPenaltyIn(losses.wgan)
    /\ \A a \in DOMAIN objective.gen : ~IsPenalty(a)
    /\ cfg.use_pose_vae =>
        /\ Get(losses.disc, "frame_disc_loss_wgan") =
               [a \in {"frame_sum(" \o FakeFrame(cfg) \o ")",
                       "frame_sum(" \o RealFrame \o ")",
                       "frame_grad_penalty(" \o InterFrame(cfg) \o ")"} |->
                   IF a = "frame_sum(" \o FakeFrame(cfg) \o ")" THEN frame_scale
                   ELSE IF a = "frame_sum(" \o RealFrame \o ")" THEN 0 - frame_scale
                   ELSE (frame_scale * lambda_grads) \div 10]
        /\ Get(losses.gen, "frame_gen_loss_wgan") =
               [a \in {"frame_sum(" \o FakeFrame(cfg) \o ")"} |-> 0 - frame_scale]

\* both penalties are in the objective the discriminator optimizer stepped on
C10_Witness ==
    /\ cfg.use_pose_vae
    /\ opt.disc.iterations > 0
    /\ Coef(opt.disc.moments.grad_of, "grad_penalty(" \o InterScore(cfg) \o ")") > 0
    /\ Coef(opt.disc.moments.grad_of, "frame_grad_penalty(" \o InterFrame(cfg) \o ")") > 0

\* the two classification terms: cross-entropy of the true label against the
\* label head on the real path and on the fake path
ClassReal == "xent(true_label:0,discriminator/label_out/BiasAdd:0)"
ClassFake(c) ==
    "xent(true_label:0," \o ModelName(c)
        \o "_discriminator/discriminator/label_out/BiasAdd:0)"

\* C11: with action conditioning, disc_loss_action is action_scale_d times
\* (real-side + fake-side classification term) and gen_loss_action is
\* action_scale_g times the fake-side term; the real-side term is no summand
\* of any generator entry, nor of the generator objective.
C11_ActionLossSides ==
    cfg.action_cond =>
        /\ Get(losses.disc, "disc_loss_action") =
               [a \in {ClassReal, ClassFake(cfg)} |-> action_scale_d]
        /\ Get(losses.gen, "gen_loss_action") =
               [a \in {ClassFake(cfg)} |-> action_scale_g]
        /\ \A i \in 1..Len(losses.gen) : Coef(losses.gen[i].val, ClassReal) = 0
        /\ Coef(objective.gen, ClassReal) = 0
        /\ Coef(objective.gen, ClassFake(cfg)) = action_scale_g
        /\ Coef(objective.disc, ClassReal) = action_scale_d
        /\ opt.gen.iterations > 0 => Coef(opt.gen.moments.grad_of, ClassReal) = 0

\* both optimizers have stepped on an action-conditioned model and the
\* generator reported its action loss
C11_Witness ==
    /\ cfg.action_cond
    /\ opt.disc.iterations > 0 /\ opt.gen.iterations > 0
    /\ report.call = "gen_train"
    /\ HasKey(report.items, "train/gen_loss_action")

AllZeroFrame(x, t) == \A j \in Joints : \A c \in Coords : x[j][t][c] = 0

\* C12 as stated: a frame whose real coordinates are all zero contributes
\* exactly zero to the frame-weighted terms (the reconstruction loss and the
\* frame-level adversarial sums), whatever is generated or scored there.
C12_Original ==
    tens.op \in {"loss_rec", "frame_loss"} =>
        \A t \in Frames :
            AllZeroFrame(tens.real, t) => tens.out[t] = [one |-> 0, eps |-> 0]

\* C13 as stated: the unweighted shape loss is unchanged when the real and
\* the generated sequence exchange roles.
C13_Original ==
    tens.op = "loss_shape" => tens.out.forward = tens.out.swapped

\* C14 as stated: the joint-pair mask of the shape loss is the strict upper
\* triangle, entry (i, j) is 1 exactly when i < j.
C14_Original ==
    tens.op = "shape_mask" =>
        \A i \in Joints : \A j \in Joints :
            tens.out[i][j] = (IF i < j THEN 1 ELSE 0)

\* the two poses are equal wherever the mask is 1
AgreeWhereObserved(x, y, m) ==
    \A j \in Joints : \A t \in Frames : m[j][t] = 1 => x[j][t] = y[j][t]

\* C15: what the generator's first feature-extraction layer reads is zero at
\* every masked position, and is the same tensor for any two poses that agree
\* wherever the mask is 1: the generator cannot depend on masked-out content.
C15_MaskedContentUnobservable ==
    tens.op = "gen_fex_input" =>
        /\ \A j \in Joints : \A t \in Frames :
            tens.arg[j][t] = 0 => \A c \in Coords : tens.out[j][t][c] = 0
        /\ \A other \in RealPoses :
            AgreeWhereObserved(other, tens.real, tens.arg)
                => gen_fex_input(other, tens.arg) = tens.out

\* a partly masked pose with non-zero masked content, and a different pose
\* that agrees with it on the observed positions
C15_Witness ==
    /\ tens.op = "gen_fex_input"
    /\ \E j \in Joints : \E t \in Frames :
        tens.arg[j][t] = 0 /\ tens.real[j][t] # <<0, 0, 0>>
    /\ \E j \in Joints : \E t \in Frames :
        tens.arg[j][t] = 1 /\ tens.real[j][t] # <<0, 0, 0>>
    /\ \E other \in RealPoses :
        other # tens.real /\ AgreeWhereObserved(other, tens.real, tens.arg)

\* C16: for a binary mask, masking a masked pose again changes nothing:
\* mask * (mask * pose) = mask * pose elementwise, for the real and for the
\* generated pose.
C16_MaskingIdempotent ==
    tens.op \in {"gen_fex_input", "loss_rec"} =>
        /\ Multiply(Multiply(tens.real, tens.arg), tens.arg) = Multiply(tens.real, tens.arg)
        /\ Multiply(Multiply(tens.gen, tens.arg), tens.arg) = Multiply(tens.gen, tens.arg)
        /\ tens.op = "gen_fex_input" => Multiply(tens.out, tens.arg) = tens.out

\* a mask with observed and masked positions applied to non-zero coordinates
C16_Witness ==
    /\ tens.op = "gen_fex_input"
    /\ \E j \in Joints : \E t \in Frames : tens.arg[j][t] = 1 /\ tens.out[j][t] # <<0, 0, 0>>
    /\ \E j \in Joints : \E t \in Frames :
        tens.arg[j][t] = 0 /\ tens.real[j][t] # <<0, 0, 0>> /\ tens.out[j][t] = <<0, 0, 0>>

\* a pose in tenths
Tenths(x) == [j \in Joints |-> [t \in Frames |-> [c \in Coords |-> 10 * x[j][t][c]]]]

\* C17: the critic input of the gradient penalty is alpha * real +
\* (1 - alpha) * generated; at alpha = 1 it is the real sequence and the
\* penalty is a function of the critic gradient at the real sequence alone,
\* at alpha = 0 it is the generated sequence and the penalty a function of
\* the critic gradient there alone.
C17_InterpolationEndpoints ==
    tens.op = "interpolates" =>
        /\ \A j \in Joints : \A t \in Frames : \A c \in Coords :
            tens.out.interpolates[j][t][c] =
                tens.arg * tens.real[j][t][c] + (10 - tens.arg) * tens.gen[j][t][c]
        /\ tens.arg = 10 =>
            /\ tens.out.interpolates = Tenths(tens.real)
            /\ tens.out.grad_penalty = grad_penalty(Tenths(tens.real))
        /\ tens.arg = 0 =>
            /\ tens.out.interpolates = Tenths(tens.gen)
            /\ tens.out.grad_penalty = grad_penalty(Tenths(tens.gen))

\* alpha = 1 with different real and generated sequences
C17_Witness ==
    /\ tens.op = "interpolates"
    /\ tens.arg = 10
    /\ tens.real # tens.gen
    /\ tens.out.interpolates = Tenths(tens.real)
    /\ tens.out.interpolates # Tenths(tens.gen)

\* C18 as stated: for every variant, every setting of time_pres_emb and
\* use_pose_vae and every joint count and sequence length, the generator is
\* constructed and its output has the shape (J, T, 3) of the input pose.
C18_Original ==
    /\ build.stage # "failed"
    /\ build.stage = "gen_model" => build.shape = <<build.njoints, build.seq_len, 3>>

\* C19: update_lr(lr) sets the learning rate of both optimizers to lr and
\* changes nothing else: each optimizer's step counter and moment estimates,
\* the weights of both networks and the last report are as before. The main
\* program calls it at the top of every epoch with DecayedLr(epoch).
C19_UpdateLrSetsOnlyRates ==
    [][(pc = "epoch" /\ pc' = "batch") =>
          /\ opt'.disc.lr = DecayedLr(epoch)
          /\ opt'.gen.lr = DecayedLr(epoch)
          /\ \A o \in {"disc", "gen"} :
                /\ opt'[o].iterations = opt[o].iterations
                /\ opt'[o].moments = opt[o].moments
          /\ weights' = weights
          /\ report' = report
          /\ ncalls' = ncalls]_vars

\* the second epoch has just begun: the rate was lowered while both optimizers
\* kept the state of the first epoch's updates
C19_Witness ==
    /\ pc = "batch"
    /\ epoch = 1
    /\ batch = 0
    /\ opt.disc.lr = DecayedLr(1)
    /\ opt.gen.lr = DecayedLr(1)
    /\ opt.disc.lr < InitialLr
    /\ opt.disc.iterations > 0
    /\ opt.gen.iterations > 0
    /\ opt.gen.moments.at.src = "train"

\* learning_rate * (1 - e / num_epochs), in units of learning_rate / num_epochs
LinearRate(e) == (InitialLr * (NumEpochs - e)) \div NumEpochs

\* C20: with learning-rate decay, every update of epoch e, the first epoch
\* after a resume included, is made with both optimizers' rate at
\* learning_rate * (1 - e / num_epochs); the rate is learning_rate at epoch 0,
\* would be zero at epoch num_epochs, and is never raised.
C20_LinearDecay ==
    /\ [][(opt'.disc.iterations # opt.disc.iterations
            \/ opt'.gen.iterations # opt.gen.iterations) =>
              /\ opt.disc.lr = LinearRate(epoch)
              /\ opt.gen.lr = LinearRate(epoch)
              /\ opt'.disc.lr = opt.disc.lr
              /\ opt'.gen.lr = opt.gen.lr]_vars
    /\ [][opt'.disc.lr <= opt.disc.lr /\ opt'.gen.lr <= opt.gen.lr]_vars
    /\ [][epoch' > epoch => LinearRate(epoch') < LinearRate(epoch)]_vars
    /\ [](LinearRate(0) = InitialLr /\ LinearRate(NumEpochs) = 0)

\* a resumed run (the optimizers are new, the restored weights are not) has
\* made its first critic update at the lowered rate of its epoch
C20_Witness ==
    /\ epoch = 1
    /\ disk.config.epoch = 1
    /\ weights["discriminator"] > opt.disc.iterations
    /\ opt.disc.iterations = 1
    /\ opt.disc.lr = LinearRate(1)
    /\ opt.gen.lr = LinearRate(1)
    /\ LinearRate(1) < InitialLr

C22_Original ==
    (disk.disc_weights.written /\ disk.gen_weights.written) =>
        disk.disc_weights.w["discriminator"] = disc_batches * disk.gen_weights.w["generator"]

\* C23: a run that starts from a recorded counter other than (epoch 0,
\* batch 0) has, before its first update, the weights of both weight files
\* loaded into the discriminator and the generator.
C23_Original ==
    (ncalls = 0 /\ (disk.config.epoch # 0 \/ disk.config.batch # 0)) =>
        /\ \A l \in trainable_weights("disc", cfg) : weights[l] = disk.disc_weights.w[l]
        /\ \A l \in trainable_weights("gen", cfg) : weights[l] = disk.gen_weights.w[l]

\* C28: at every point of a run the persisted (epoch, batch) counter is not
\* ahead of the persisted weight files: every outer step the counter counts
\* as done has its disc_batches discriminator updates and its generator
\* update in the files.
C28_Original ==
    /\ disk.gen_weights.w["generator"]
          >= disk.config.epoch * TrainBatches + disk.config.batch
    /\ disk.disc_weights.w["discriminator"]
          >= (disk.config.epoch * TrainBatches + disk.config.batch) * disc_batches

\* the value each declared input is to be fed with
FedWith(tensor) ==
    CASE tensor = "real_seq:0" -> "poses_batch"
      [] tensor = "seq_mask:0" -> "mask_batch"
      [] tensor = "latent_cond_input:0" -> "latent_noise"
      [] tensor = "true_label:0" -> "labs_batch[:, 2]"

\* C24: every batch is handed over as a triple (label batch, pose batch,
\* mask batch) and taken apart as one, and the list the main program passes
\* to an entry point matches the function's declared inputs element by
\* element.
C24_Original ==
    report.call # "none" =>
        /\ yielded_batch = <<"labs_batch", "poses_batch", "mask_batch">>
        /\ Len(unpack_targets) = Len(yielded_batch)
        /\ Len(driver_inputs(report.call, cfg)) = Len(function_inputs(report.call, cfg))
        /\ \A i \in 1..Len(function_inputs(report.call, cfg)) :
              /\ i <= Len(driver_inputs(report.call, cfg))
              /\ driver_inputs(report.call, cfg)[i] = FedWith(function_inputs(report.call, cfg)[i])

\* C25: for every data set of at least one sequence and every batch size,
\* every precomputed batch and every batch a generator yields holds exactly
\* batch_size samples, the last slice of the epoch included, whether or not
\* the number of sequences is a multiple of batch_size.
C25_BatchesAreFull ==
    /\ data.stage # "error" \/ (data.is_training /\ data.only_val)
    /\ data.stage \in {"precomp", "ready", "generating"} =>
          \A i \in 1..Len(data.batches) :
              /\ Len(data.batches[i]) = data.batch_size
              /\ \A k \in 1..data.batch_size : data.batches[i][k] \in 0..(data.len_keys - 1)
    /\ (data.stage = "generating" /\ data.served # <<>>) => Len(data.out) = data.batch_size

\* the number of sequences is an exact multiple of batch_size and the last
\* batch of the validation list, made of random samples only, was yielded
C25_Witness ==
    /\ data.stage = "generating"
    /\ ~data.is_training
    /\ data.len_keys = 2
    /\ data.batch_size = 2
    /\ data.served # <<>>
    /\ data.served[Len(data.served)] = data.epoch_size - 1
    /\ data.out = data.batches[data.epoch_size]
    /\ data.out = <<1, 1>>

\* C29: with only_val off a generator always has a next batch, and the
\* yields of a block of epoch_size are the batches at pairwise different
\* positions of the precomputed list, so that a whole block returns every
\* one of the epoch_size batches exactly once; this for the training list
\* multiplied by epoch_factor and for the validation list.
C29_BlocksArePermutations ==
    (data.stage = "generating" /\ ~data.only_val) =>
        /\ Len(data.batches) = data.epoch_size
        /\ Len(data.served) = data.slice_idx \/ data.slice_idx = data.epoch_size
        /\ \A i, j \in 1..Len(data.served) : data.served[i] = data.served[j] => i = j
        /\ \A i \in 1..Len(data.served) : data.served[i] \in 0..(data.epoch_size - 1)
        /\ data.served # <<>> =>
              data.out = data.batches[data.served[Len(data.served)] + 1]
        /\ (data.slice_idx = data.epoch_size /\ data.served # <<>>) =>
              {data.served[i] : i \in 1..Len(data.served)} = 0..(data.epoch_size - 1)
        /\ ENABLED (DrawPermutation \/ Yield)

\* a whole block of the training generator with epoch_factor 2, not in list
\* order
C29_Witness ==
    /\ data.stage = "generating"
    /\ ~data.only_val
    /\ data.is_training
    /\ data.epoch_factor = 2
    /\ data.epoch_size = 4
    /\ data.slice_idx = data.epoch_size
    /\ Len(data.served) = 4
    /\ data.served[1] = 3
    /\ data.served[2] = 0

\* C27: with the pose sub-encoder the generator output at (joint j, frame t,
\* coordinate c) is element 3*j + c of the decoder's flattened output for
\* frame t.
C27_Original ==
    tens.op = "gen_outputs" =>
        /\ tens.out.shape = <<NJoints, SeqLen, 3>>
        /\ \A j \in 0..(NJoints - 1), t \in 0..(SeqLen - 1), c \in 0..2 :
              tens.out.at[<<j, t, c>>] = <<t, 3 * j + c>>

\* C26: for every configuration the loader accepts, once the selection has
\* run exactly one variant out of v1, v2, v3 is selected, and it is the one
\* the configuration names.
C26_Original ==
    build.stage # "config" =>
        /\ build.model_wrap \in {"MotionGANv1", "MotionGANv2", "MotionGANv3"}
        /\ build.model_wrap = "MotionGAN" \o cfg.model_version

\* the arguments of the first k open blocks joined by '/'
RECURSIVE JoinedNames(_, _)
JoinedNames(blocks, k) ==
    IF k = 0 THEN ""
    ELSE IF k = 1 THEN blocks[1].scope
    ELSE JoinedNames(blocks, k - 1) \o "/" \o blocks[k].scope

\* C30: while blocks are open the name stack is their names joined by '/',
\* outermost first; every open block remembers the stack of the moment it was
\* entered, and leaving it, normally or through an exception raised in its
\* body, puts exactly that value back; with no block open the stack is ''.
C30_NameStackFollowsNesting ==
    /\ [](scope.stage = "open" =>
            /\ scope._name_stack = JoinedNames(scope.blocks, Len(scope.blocks))
            /\ \A k \in 1..Len(scope.blocks) :
                  scope.blocks[k].old_stack = JoinedNames(scope.blocks, k - 1)
            /\ scope.blocks = <<>> => scope._name_stack = "")
    /\ [][(scope.stage = "open" /\ Len(scope'.blocks) > Len(scope.blocks)) =>
            /\ scope'.blocks[Len(scope'.blocks)].old_stack = scope._name_stack
            /\ SubSeq(scope'.blocks, 1, Len(scope.blocks)) = scope.blocks]_vars
    /\ [][(scope.stage = "open" /\ Len(scope'.blocks) < Len(scope.blocks)) =>
            /\ scope'._name_stack = scope.blocks[Len(scope.blocks)].old_stack
            /\ scope'.blocks = SubSeq(scope.blocks, 1, Len(scope.blocks) - 1)]_vars

\* an exception raised in a body has left every block on its way out (only a
\* body raises, so the blocks were left while it propagated)
C30_Witness ==
    /\ scope.stage = "open"
    /\ scope.raising
    /\ scope.blocks = <<>>
    /\ scope._name_stack = ""

====
